---- MODULE Spec2Model ----
(***************************************************************************)
(* Conversational context layer of the CECADE assistant.                   *)
(*                                                                         *)
(*   ContextService   (src/src/services/contextService.ts): the store of   *)
(*                    session contexts, its short-term memory and its      *)
(*                    persisted copies.                                    *)
(*   GeminiAIService  (src/src/services/ai/geminiAIService.ts): the        *)
(*                    analysis of one query and the profile it returns.    *)
(*   SentimentAnalysisService                                              *)
(*                    (src/src/services/ai/sentimentAnalysisService.ts):   *)
(*                    the cache of sentiment analyses.                     *)
(*   ResponseService  (src/src/lib/browserDetection.ts): the lexical       *)
(*                    matcher over the catalog of response templates.      *)
(*   useAssistant, useGeminiAI, useConversationContext,                    *)
(*   useSpeechRecognition                                                  *)
(*                    (src/src/hooks): the interactive path from a         *)
(*                    transcript or a typed message to the reply, the      *)
(*                    retries of speech recognition, the request queue.    *)
(*                                                                         *)
(* Numbers in 0..1 (confidence) are kept in hundredths: 0.8 is 80.         *)
(* Dates are kept as their getTime() value, the milliseconds read from the *)
(* clock now.  A context carries lastInteraction, metadata.startTime and   *)
(* metadata.duration; the timestamps of messages, of topic transitions, of *)
(* concept mentions and of the user profile are read by no operation       *)
(* modelled here and are left out of the records.                          *)
(***************************************************************************)
EXTENDS Integers, Sequences, FiniteSets, TLC

VARIABLES
    contexts,         \* ContextService.contexts: Map<sessionId, ConversationContext>
    shortTermMemory,  \* ContextService.shortTermMemory: Map<sessionId, ShortTermMemory>
    localStorage,     \* the browser's localStorage, keys "context_<sessionId>"
    activeContexts,   \* ContextService.state.activeContexts
    appended,         \* history: every message pushed to a session's context since it was created
                      \* or loaded (kept when the context is removed)
    lastOp,           \* the last call made on the service and how it ended
    calls,            \* how many calls have been made (bounds the runs)
    profileIn,        \* GeminiAIService.processQuery: the profile of the context passed in
    queryResult,      \* GeminiAIService.processQuery: the last AIProcessingResult, or NoResult
    now,              \* the clock: Date.now(), in milliseconds since the first launch
    longTermMemory,   \* ContextService.longTermMemory: Map<sessionId, LongTermMemory>
    persistWarned,    \* the last call logged 'Failed to persist context'
    queryIn,          \* GeminiAIService.processQuery: the query and what the model answered
    analysisCache,    \* SentimentAnalysisService.analysisCache: Map<cacheKey, SentimentAnalysis>
    pending,          \* analyzeMessageSentiment calls waiting for processQuery
    sentimentLog,     \* history: what each analyzeMessageSentiment call returned, in order of return
    sentimentCalls,   \* history: how many analyzeMessageSentiment calls were made
    externalCalls,    \* history: how many times analyzeMessageSentiment called processQuery
    lexicalMatch,     \* ResponseService.getResponse: the last input, catalog and what was matched
    assistant,        \* useAssistant: config, messages, error and currentEmotion
    sending,          \* useAssistant.sendMessage: the calls made, each with the await it stands at
    gemini,           \* useGeminiAI: the state and abortControllerRef (the number of the call
                      \* that created the controller, 0 for null)
    conversation,     \* useConversationContext: isInitialized, activeSessionId and error
    speech,           \* useSpeechRecognition: the state, the refs, the recognition object and
                      \* the values the effect's handlers closed over
    queue             \* useGeminiAI: requestQueueRef, isProcessingRef and where processQueue stands

\* the variables of SentimentAnalysisService
sentimentVars == <<analysisCache, pending, sentimentLog, sentimentCalls, externalCalls>>

\* the variables of ContextService, of GeminiAIService and of the clock
serviceVars == <<contexts, shortTermMemory, localStorage, activeContexts, appended, lastOp,
                 calls, profileIn, queryResult, now, longTermMemory, persistWarned, queryIn>>

\* the variables of the user interface: the lexical matcher and the React hooks
uiVars == <<lexicalMatch, assistant, sending, gemini, conversation, speech, queue>>

\* the variables of useSpeechRecognition and of the request queue
hookVars == <<speech, queue>>

vars == <<contexts, shortTermMemory, localStorage, activeContexts, appended, lastOp,
          calls, profileIn, queryResult, now, longTermMemory, persistWarned, queryIn,
          analysisCache, pending, sentimentLog, sentimentCalls, externalCalls,
          lexicalMatch, assistant, sending, gemini, conversation, speech, queue>>

(***************************************************************************)
(* Bounds and configuration                                                *)
(***************************************************************************)

\* config.maxShortTermMemory (the hook's default is 20; any value >= 0 may be configured)
maxShortTermMemory == 2

\* calls made on the service in a run of Spec
MaxCalls == 5

\* calls made on the service in a run of SpecProfile
MaxProfileCalls == 7

\* calls made on the service in a run of SpecStage
MaxStageCalls == 13
MaxTurns == 12

\* calls made on the service in a run of SpecLifecycle
MaxLifecycleCalls == 5

\* calls made on the service in a run of SpecStorage
MaxStorageCalls == 4

\* how many steps the clock makes
MaxTicks == 3

\* analyzeMessageSentiment calls made in a run of SpecSentiment
MaxSentimentCalls == 3

\* cacheAge < 300000, "5 minutos"
CacheTtlMs == 300000

\* config.contextRetentionDays (the hook's default is 30)
contextRetentionDays == 1

\* "Mantener solo los ultimos 10 intereses"
MaxInterests == 10

\* recentTopics.length > 5
MaxRecentTopics == 5

\* updatedTopics.slice(-5)
MaxPreferredTopics == 5

\* analysis.confidence > 0.8, in hundredths
LevelConfidenceThreshold == 80

(***************************************************************************)
(* JavaScript helpers                                                      *)
(***************************************************************************)

\* Array.prototype.includes
Includes(seq, x) == \E i \in 1..Len(seq) : seq[i] = x

\* Array.prototype.slice(-n), n > 0
SliceLast(seq, n) ==
    IF Len(seq) > n THEN SubSeq(seq, Len(seq) - n + 1, Len(seq)) ELSE seq

\* Array.prototype.shift(): the array without its first element
Shift(seq) == IF Len(seq) = 0 THEN seq ELSE Tail(seq)

\* the value of a Map lookup that finds nothing / of getContext's "|| null"
Null == [null |-> TRUE]

\* updateContext called without its optional analysis argument
NoAnalysis == [none |-> TRUE]

\* createContext called without its optional initialUserProfile argument
NoProfileSeed == [none |-> TRUE]

(***************************************************************************)
(* Inputs                                                                  *)
(***************************************************************************)

Sessions == {"s1", "s2"}

LongContent == "quiero una explicacion muy detallada de como funcionan las clases los objetos y la herencia en java paso a paso"

\* message.content.length
ContentLength(content) ==
    CASE content = "hola" -> 4
      [] content = "dame un ejemplo de python" -> 25
      [] content = LongContent -> 111
      [] OTHER -> 0

\* message.content.toLowerCase().includes('ejemplo')
ContainsEjemplo(content) == content = "dame un ejemplo de python"

Messages ==
    { [id |-> "m1", type |-> "user", content |-> "hola"],
      [id |-> "m2", type |-> "assistant", content |-> "dame un ejemplo de python"] }

MessageLong == [id |-> "m3", type |-> "user", content |-> LongContent]

Analysis(intent, sentiment, confidence, userLevel, keywords, category) ==
    [intent |-> intent, sentiment |-> sentiment, confidence |-> confidence,
     userLevel |-> userLevel, keywords |-> keywords, category |-> category]

\* analyses offered to updateContext under Spec
Analyses ==
    { Analysis("ask", "positive", 80, "beginner", <<"python">>, "programming"),
      Analysis("ask", "negative", 90, "advanced", <<"git", "python">>, "joke"),
      Analysis("ask", "neutral", 40, "intermediate", << >>, "general") }

(***************************************************************************)
(* ContextService: pure helpers                                            *)
(***************************************************************************)

extractTopicFromAnalysis(analysis) ==
    CASE analysis.category = "programming" -> "programming_concepts"
      [] analysis.category = "greeting" -> "social_interaction"
      [] analysis.category = "joke" -> "entertainment"
      [] analysis.category = "general" -> "general_inquiry"
      [] analysis.category = "cecade_info" -> "institutional_info"
      [] OTHER -> analysis.category

\* faulty variant: tests messageCount > 10 before topicCount <= 2
determineConversationStage_conclusion_first(context) ==
    LET messageCount == context.metadata.messageCount
        topicCount == context.metadata.topicCount
    IN  IF messageCount <= 2 THEN "greeting"
        ELSE IF messageCount > 10 THEN "conclusion"
        ELSE IF topicCount <= 2 THEN "exploration"
        ELSE "deep_dive"

\* faulty variant: exploration only below two topics
determineConversationStage_counts_topics_from_two(context) ==
    LET messageCount == context.metadata.messageCount
        topicCount == context.metadata.topicCount
    IN  IF messageCount <= 2 THEN "greeting"
        ELSE IF topicCount < 2 THEN "exploration"
        ELSE IF messageCount > 10 THEN "conclusion"
        ELSE "deep_dive"

\* faulty variant: exploration while the topics are few for the number of messages
determineConversationStage_topics_per_message(context) ==
    LET messageCount == context.metadata.messageCount
        topicCount == context.metadata.topicCount
    IN  IF messageCount <= 2 THEN "greeting"
        ELSE IF topicCount * 3 <= messageCount THEN "exploration"
        ELSE IF messageCount > 10 THEN "conclusion"
        ELSE "deep_dive"

determineConversationStage(context) ==
    LET messageCount == context.metadata.messageCount
        topicCount == context.metadata.topicCount
    IN  IF messageCount <= 2 THEN "greeting"
        ELSE IF topicCount <= 2 THEN "exploration"
        ELSE IF messageCount > 10 THEN "conclusion"
        ELSE "deep_dive"

\* faulty variant: a negative sentiment does not lower the score
calculateEngagementLevel_ignores_negative(context, analysis) ==
    LET score ==
              (IF analysis.sentiment = "positive" THEN 2 ELSE 0)
            + (IF analysis.confidence > 80 THEN 1 ELSE 0)
            + (IF context.metadata.messageCount > 5 THEN 1 ELSE 0)
            + (IF Len(context.activeTopics) > 2 THEN 1 ELSE 0)
            - (IF analysis.confidence < 50 THEN 1 ELSE 0)
    IN  IF score >= 3 THEN "high"
        ELSE IF score >= 1 THEN "medium"
        ELSE "low"

calculateEngagementLevel(context, analysis) ==
    LET score ==
              (IF analysis.sentiment = "positive" THEN 2 ELSE 0)
            + (IF analysis.confidence > 80 THEN 1 ELSE 0)
            + (IF context.metadata.messageCount > 5 THEN 1 ELSE 0)
            + (IF Len(context.activeTopics) > 2 THEN 1 ELSE 0)
            - (IF analysis.sentiment = "negative" THEN 1 ELSE 0)
            - (IF analysis.confidence < 50 THEN 1 ELSE 0)
    IN  IF score >= 3 THEN "high"
        ELSE IF score >= 1 THEN "medium"
        ELSE "low"

predictNextTopics(context, analysis) ==
    LET currentTopic == context.conversationFlow.currentTopic
    IN  CASE currentTopic = "social_interaction" -> <<"programming_concepts", "institutional_info">>
          [] currentTopic = "programming_concepts" -> <<"specific_languages", "projects", "career_advice">>
          [] currentTopic = "institutional_info" -> <<"programming_concepts", "admission_process">>
          [] currentTopic = "entertainment" -> <<"programming_concepts", "social_interaction">>
          [] OTHER -> <<"programming_concepts", "general_inquiry">>

\* keyword.toLowerCase().includes(k) over the keyword lists, first category that matches
categorizeKeyword(keyword) ==
    CASE keyword \in {"python", "javascript", "java", "react"} -> "programming_language"
      [] keyword \in {"web", "api", "framework"} -> "technology"
      [] keyword \in {"oop", "algorithm"} -> "concept"
      [] keyword \in {"git", "npm"} -> "tool"
      [] keyword \in {"scrum", "tdd"} -> "methodology"
      [] OTHER -> "concept"

detectTemporaryPreferences(message, analysis) ==
    (IF ContentLength(message.content) > 100
     THEN << [type |-> "detail_level", value |-> "detailed",
              confidence |-> 70, reinforcementCount |-> 1] >>
     ELSE << >>)
    \o
    (IF ContainsEjemplo(message.content)
     THEN << [type |-> "example_preference", value |-> "examples_preferred",
              confidence |-> 80, reinforcementCount |-> 1] >>
     ELSE << >>)

(***************************************************************************)
(* ContextService: the steps of updateContext                              *)
(***************************************************************************)

\* faulty variant: records a transition on every analysed message
updateConversationFlow_records_every_message(context, analysis, message) ==
    LET flow == context.conversationFlow
        newTopic == extractTopicFromAnalysis(analysis)
        transition == [fromTopic |-> flow.currentTopic,
                       toTopic |-> newTopic,
                       transitionReason |-> IF message.type = "user" THEN "user_request"
                                            ELSE "ai_suggestion",
                       confidence |-> analysis.confidence]
        isNew == ~Includes(context.activeTopics, newTopic)
        c1 == [context EXCEPT
                 !.conversationFlow.topicHistory = Append(@, transition),
                 !.conversationFlow.currentTopic = newTopic,
                 !.activeTopics = IF isNew THEN Append(@, newTopic) ELSE @,
                 !.metadata.topicCount = IF isNew THEN @ + 1 ELSE @]
        c2 == [c1 EXCEPT !.conversationFlow.conversationStage = determineConversationStage(c1)]
        c3 == [c2 EXCEPT !.conversationFlow.userEngagementLevel = calculateEngagementLevel(c2, analysis)]
    IN  [c3 EXCEPT !.conversationFlow.expectedNextTopics = predictNextTopics(c3, analysis)]

updateConversationFlow(context, analysis, message) ==
    LET flow == context.conversationFlow
        newTopic == extractTopicFromAnalysis(analysis)
        transition == [fromTopic |-> flow.currentTopic,
                       toTopic |-> newTopic,
                       transitionReason |-> IF message.type = "user" THEN "user_request"
                                            ELSE "ai_suggestion",
                       confidence |-> analysis.confidence]
        changed == newTopic # flow.currentTopic
        isNew == changed /\ ~Includes(context.activeTopics, newTopic)
        c1 == IF changed
              THEN [context EXCEPT
                      !.conversationFlow.topicHistory = Append(@, transition),
                      !.conversationFlow.currentTopic = newTopic,
                      !.activeTopics = IF isNew THEN Append(@, newTopic) ELSE @,
                      !.metadata.topicCount = IF isNew THEN @ + 1 ELSE @]
              ELSE context
        c2 == [c1 EXCEPT !.conversationFlow.conversationStage = determineConversationStage(c1)]
        c3 == [c2 EXCEPT !.conversationFlow.userEngagementLevel = calculateEngagementLevel(c2, analysis)]
    IN  [c3 EXCEPT !.conversationFlow.expectedNextTopics = predictNextTopics(c3, analysis)]

\* faulty variant: appends the topic without the includes test
updateRecentTopics_pushes_always(recentTopics, topic) ==
    LET pushed == Append(recentTopics, topic)
    IN  IF Len(pushed) > MaxRecentTopics THEN Shift(pushed) ELSE pushed

updateRecentTopics(recentTopics, topic) ==
    IF ~Includes(recentTopics, topic)
    THEN LET pushed == Append(recentTopics, topic)
         IN  IF Len(pushed) > MaxRecentTopics THEN Shift(pushed) ELSE pushed
    ELSE recentTopics

\* one iteration of analysis.keywords.forEach over memory.mentionedConcepts
mentionConcept(mentionedConcepts, keyword, message, analysis) ==
    IF \E i \in 1..Len(mentionedConcepts) : mentionedConcepts[i].concept = keyword
    THEN LET i == CHOOSE j \in 1..Len(mentionedConcepts) :
                      /\ mentionedConcepts[j].concept = keyword
                      /\ \A k \in 1..(j - 1) : mentionedConcepts[k].concept # keyword
         IN  [mentionedConcepts EXCEPT ![i].mentionCount = @ + 1,
                                       ![i].context = message.content]
    ELSE Append(mentionedConcepts,
                [concept |-> keyword,
                 category |-> categorizeKeyword(keyword),
                 mentionCount |-> 1,
                 context |-> message.content,
                 userUnderstandingLevel |-> analysis.userLevel])

RECURSIVE mentionConcepts(_, _, _, _)
mentionConcepts(mentionedConcepts, keywords, message, analysis) ==
    IF keywords = << >> THEN mentionedConcepts
    ELSE mentionConcepts(mentionConcept(mentionedConcepts, Head(keywords), message, analysis),
                         Tail(keywords), message, analysis)

\* one iteration of preferences.forEach over memory.userPreferences
reinforcePreference(userPreferences, pref) ==
    IF \E i \in 1..Len(userPreferences) : userPreferences[i].type = pref.type
    THEN LET i == CHOOSE j \in 1..Len(userPreferences) :
                      /\ userPreferences[j].type = pref.type
                      /\ \A k \in 1..(j - 1) : userPreferences[k].type # pref.type
         IN  [userPreferences EXCEPT
                ![i].reinforcementCount = @ + 1,
                ![i].confidence = IF @ + 10 > 100 THEN 100 ELSE @ + 10]
    ELSE Append(userPreferences, pref)

RECURSIVE reinforcePreferences(_, _)
reinforcePreferences(userPreferences, preferences) ==
    IF preferences = << >> THEN userPreferences
    ELSE reinforcePreferences(reinforcePreference(userPreferences, Head(preferences)),
                              Tail(preferences))

updateShortTermMemory(memory, message, analysis) ==
    [memory EXCEPT
       !.recentTopics = updateRecentTopics(@, extractTopicFromAnalysis(analysis)),
       !.mentionedConcepts = mentionConcepts(@, analysis.keywords, message, analysis),
       !.userPreferences = reinforcePreferences(@, detectTemporaryPreferences(message, analysis))]

\* faulty variant: confidence >= 0.8 already changes the level
updateDetectedLevel_at_threshold(detectedLevel, analysis) ==
    IF analysis.userLevel # detectedLevel /\ analysis.confidence >= LevelConfidenceThreshold
    THEN analysis.userLevel
    ELSE detectedLevel

updateDetectedLevel(detectedLevel, analysis) ==
    IF analysis.userLevel # detectedLevel /\ analysis.confidence > LevelConfidenceThreshold
    THEN analysis.userLevel
    ELSE detectedLevel

RECURSIVE pushNewKeywords(_, _)
pushNewKeywords(interests, keywords) ==
    IF keywords = << >> THEN interests
    ELSE pushNewKeywords(IF Includes(interests, Head(keywords)) THEN interests
                         ELSE Append(interests, Head(keywords)),
                         Tail(keywords))

\* faulty variant: slice(0, 10), which drops the newest keywords
updateProfileInterests_keeps_first(interests, keywords) ==
    LET pushed == pushNewKeywords(interests, keywords)
    IN  IF Len(pushed) > MaxInterests THEN SubSeq(pushed, 1, MaxInterests) ELSE pushed

updateProfileInterests(interests, keywords) ==
    LET pushed == pushNewKeywords(interests, keywords)
    IN  IF Len(pushed) > MaxInterests THEN SliceLast(pushed, MaxInterests) ELSE pushed

updateProfilePreferredTopics(preferredTopics, category) ==
    IF ~Includes(preferredTopics, category) THEN Append(preferredTopics, category)
    ELSE preferredTopics

updateUserProfile(context, analysis) ==
    [context EXCEPT
       !.userProfile.detectedLevel = updateDetectedLevel(@, analysis),
       !.userProfile.sentiment = analysis.sentiment,
       !.userProfile.interests = updateProfileInterests(@, analysis.keywords),
       !.userProfile.preferredTopics = updateProfilePreferredTopics(@, analysis.category),
       !.userProfile.interactionCount = @ + 1]

\* faulty variant: removes the excess from the end of the list
trimMessages_keeps_oldest(messages) ==
    IF Len(messages) > maxShortTermMemory
    THEN SubSeq(messages, 1, maxShortTermMemory)
    ELSE messages

\* context.messages after splice(0, length - maxShortTermMemory).  The removed
\* messages go to compressOldMessages, which writes their summary to the event log
\* and touches longTermMemory only for a session that has an entry there; nothing
\* ever adds one.
trimMessages(messages) ==
    IF Len(messages) > maxShortTermMemory
    THEN SubSeq(messages, Len(messages) - maxShortTermMemory + 1, Len(messages))
    ELSE messages

\* Date.prototype.toJSON: the ISO string, which keeps the milliseconds
toISOString(date) == [iso |-> date]

\* new Date(isoString)
newDate(string) == string.iso

\* JSON.stringify(context): the stored text, kept as the value it encodes; the dates
\* are stored as strings
Serialize(context) ==
    [json |-> [context EXCEPT !.lastInteraction = toISOString(@),
                              !.metadata.startTime = toISOString(@)]]

\* JSON.parse(serialized) with lastInteraction and metadata.startTime made dates again
reviveContext(serialized) ==
    [serialized.json EXCEPT !.lastInteraction = newDate(@),
                            !.metadata.startTime = newDate(@)]

(***************************************************************************)
(* ContextService: state and operations                                    *)
(***************************************************************************)

EmptyMap == [k \in {} |-> Null]

\* Map.prototype.set
MapSet(map, key, value) ==
    [k \in (DOMAIN map) \cup {key} |-> IF k = key THEN value ELSE map[k]]

\* the key persistContext writes
StorageKey(sessionId) == <<"context_", sessionId>>

defaultProfile ==
    [detectedLevel |-> "intermediate",
     interests |-> << >>,
     sentiment |-> "neutral",
     preferredTopics |-> << >>,
     interactionCount |-> 0]

\* { ...defaultProfile, ...initialUserProfile }
mergeProfile(initialUserProfile) ==
    [f \in DOMAIN defaultProfile |->
        IF f \in DOMAIN initialUserProfile THEN initialUserProfile[f] ELSE defaultProfile[f]]

freshContext(sessionId, initialUserProfile) ==
    [sessionId |-> sessionId,
     messages |-> << >>,
     userProfile |-> mergeProfile(initialUserProfile),
     lastInteraction |-> now,
     activeTopics |-> << >>,
     conversationFlow |->
        [currentTopic |-> "greeting",
         topicHistory |-> << >>,
         expectedNextTopics |-> <<"programming", "cecade_info">>,
         conversationStage |-> "greeting",
         userEngagementLevel |-> "medium"],
     metadata |-> [startTime |-> now, duration |-> 0, messageCount |-> 0, topicCount |-> 0]]

\* faulty variant: get-or-create, an existing aggregate is kept
newContext_keeps_existing(sessionId, initialUserProfile) ==
    IF sessionId \in DOMAIN contexts THEN contexts[sessionId]
    ELSE freshContext(sessionId, initialUserProfile)

\* the aggregate createContext stores for sessionId
newContext(sessionId, initialUserProfile) == freshContext(sessionId, initialUserProfile)

initializeShortTermMemory ==
    [recentTopics |-> << >>,
     mentionedConcepts |-> << >>,
     userPreferences |-> << >>,
     conversationGoals |-> << >>,
     unresolved |-> << >>]

getContext(sessionId) ==
    IF sessionId \in DOMAIN contexts THEN contexts[sessionId] ELSE Null

Call(op, sessionId, threw, message, analysis) ==
    [op |-> op, sessionId |-> sessionId, threw |-> threw,
     message |-> message, analysis |-> analysis]

\* the sessionId option of useConversationContext: useAssistant calls the hook with no
\* options
initialSessionId == Null

\* The service right after construction on a first launch: localStorage holds no
\* "context_" key, so loadPersistedContexts loads nothing.
Init ==
    /\ contexts = EmptyMap
    /\ shortTermMemory = EmptyMap
    /\ localStorage = EmptyMap
    /\ activeContexts = 0
    /\ appended = [s \in Sessions |-> << >>]
    /\ lastOp = Call("new", "", FALSE, Null, NoAnalysis)
    /\ calls = 0
    /\ profileIn = defaultProfile
    /\ queryResult = Null
    /\ now = 0
    /\ longTermMemory = EmptyMap
    /\ persistWarned = FALSE
    /\ queryIn = Null
    /\ analysisCache = EmptyMap
    /\ pending = {}
    /\ sentimentLog = << >>
    /\ sentimentCalls = 0
    /\ externalCalls = 0
    /\ lexicalMatch = Null
    /\ assistant = [config |-> "loading", messages |-> << >>, error |-> Null,
                    currentEmotion |-> "neutral"]
    /\ sending = << >>
    /\ gemini = [isInitialized |-> FALSE, isLoading |-> FALSE, error |-> Null,
                 lastResponse |-> Null, lastAnalysis |-> Null,
                 abortController |-> 0, aborted |-> {}, applied |-> {}]
    /\ conversation = [isInitialized |-> FALSE, activeSessionId |-> initialSessionId,
                       error |-> Null]
    /\ speech = [transcript |-> << >>, committed |-> FALSE, isListening |-> FALSE,
                 error |-> Null, retryCount |-> 0, retryTimeout |-> 0,
                 recognition |-> "idle", aborted |-> FALSE,
                 effect |-> [retryCount |-> 0, isListening |-> FALSE],
                 retry |-> [delay |-> 0, fate |-> "none", by |-> "none"],
                 results |-> 0, sent |-> Null]
    /\ queue = [requestQueue |-> << >>, isProcessing |-> FALSE, await |-> "none",
                request |-> Null, queued |-> 0, started |-> << >>, settled |-> {},
                failed |-> {}, duringDrain |-> {}]

CreateContext(sessionId, initialUserProfile) ==
    /\ contexts' = MapSet(contexts, sessionId, newContext(sessionId, initialUserProfile))
    /\ shortTermMemory' = MapSet(shortTermMemory, sessionId, initializeShortTermMemory)
    /\ activeContexts' = activeContexts + 1
    /\ appended' = [appended EXCEPT ![sessionId] = << >>]
    /\ lastOp' = Call("createContext", sessionId, FALSE, Null, NoAnalysis)
    /\ persistWarned' = FALSE
    /\ UNCHANGED <<localStorage, profileIn, queryResult, queryIn, sentimentVars, now, longTermMemory>>

\* faulty variant: a missing session is created on the fly
contextNotFound_creates(sessionId, message, analysis) ==
    /\ contexts' = MapSet(contexts, sessionId,
                          [freshContext(sessionId, NoProfileSeed) EXCEPT
                              !.messages = <<message>>, !.metadata.messageCount = 1])
    /\ shortTermMemory' = MapSet(shortTermMemory, sessionId, initializeShortTermMemory)
    /\ appended' = [appended EXCEPT ![sessionId] = <<message>>]
    /\ lastOp' = Call("updateContext", sessionId, FALSE, message, analysis)
    /\ persistWarned' = FALSE
    /\ UNCHANGED <<localStorage, activeContexts, profileIn, queryResult, queryIn, sentimentVars, now, longTermMemory>>

\* throw new Error(`Context not found for session: ${sessionId}`)
contextNotFound(sessionId, message, analysis) ==
    /\ lastOp' = Call("updateContext", sessionId, TRUE, message, analysis)
    /\ persistWarned' = FALSE
    /\ UNCHANGED <<contexts, shortTermMemory, localStorage, activeContexts, appended,
                   profileIn, queryResult, queryIn, sentimentVars, now, longTermMemory>>

\* persistContext: JSON.stringify or setItem may throw (quota); the error is caught
\* and logged
persistContext(sessionId, context, storageFails) ==
    IF storageFails THEN localStorage
    ELSE MapSet(localStorage, StorageKey(sessionId), Serialize(context))

\* faulty variant: the storage error leaves persistContext
persistContextThrows_rethrows(storageFails) == storageFails

\* whether persistContext ends with an exception: its catch block only warns
persistContextThrows(storageFails) == FALSE

\* faulty variant: lastInteraction is not refreshed
pushMessage_keeps_lastInteraction(context, message) ==
    [context EXCEPT !.messages = Append(@, message),
                    !.metadata.messageCount = @ + 1,
                    !.metadata.duration = now - context.metadata.startTime]

\* the first four statements of updateContext after the lookup
pushMessage(context, message) ==
    [context EXCEPT !.messages = Append(@, message),
                    !.lastInteraction = now,
                    !.metadata.messageCount = @ + 1,
                    !.metadata.duration = now - context.metadata.startTime]

\* the context as updateContext leaves it: message pushed, flow and profile updated
\* when an analysis came with it, messages trimmed to the last maxShortTermMemory
updatedContext(context, message, analysis) ==
    LET pushed == pushMessage(context, message)
        flowed == IF analysis # NoAnalysis
                  THEN updateConversationFlow(pushed, analysis, message)
                  ELSE pushed
        profiled == IF analysis # NoAnalysis
                    THEN updateUserProfile(flowed, analysis)
                    ELSE flowed
    IN  [profiled EXCEPT !.messages = trimMessages(@)]

UpdateContext(sessionId, message, analysis, storageFails) ==
    IF sessionId \notin DOMAIN contexts
    THEN contextNotFound(sessionId, message, analysis)
    ELSE
      LET trimmed == updatedContext(contexts[sessionId], message, analysis)
      IN  /\ contexts' = MapSet(contexts, sessionId, trimmed)
          /\ shortTermMemory' =
                IF analysis # NoAnalysis /\ sessionId \in DOMAIN shortTermMemory
                THEN MapSet(shortTermMemory, sessionId,
                            updateShortTermMemory(shortTermMemory[sessionId], message, analysis))
                ELSE shortTermMemory
          /\ localStorage' = persistContext(sessionId, trimmed, storageFails)
          /\ appended' = [appended EXCEPT ![sessionId] = Append(@, message)]
          /\ lastOp' = Call("updateContext", sessionId, persistContextThrows(storageFails),
                             message, analysis)
          /\ persistWarned' = storageFails
          /\ UNCHANGED <<activeContexts, profileIn, queryResult, queryIn, sentimentVars, now, longTermMemory>>

\* the seeds createContext is called with
ProfileSeeds == {NoProfileSeed, [detectedLevel |-> "beginner"]}

\* one more call on the service, at most max of them
Counted(max) == calls < max /\ calls' = calls + 1

Next ==
    \/ \E sessionId \in Sessions, seed \in ProfileSeeds :
          /\ Counted(MaxCalls)
          /\ CreateContext(sessionId, seed)
          /\ UNCHANGED uiVars
    \/ \E sessionId \in Sessions, message \in Messages, analysis \in Analyses \cup {NoAnalysis} :
          /\ Counted(MaxCalls)
          /\ UpdateContext(sessionId, message, analysis, FALSE)
          /\ UNCHANGED uiVars

Spec == Init /\ [][Next]_vars

(***************************************************************************)
(* Properties of the store, checked under Spec                             *)
(***************************************************************************)

\* the step is a call of updateContext
IsUpdateCall == calls' # calls /\ lastOp'.op = "updateContext"

\* C1: updateContext for a session id that has no stored context fails with the
\* not-found error and changes nothing: no context, no short-term memory and no
\* persisted entry appears for that id, and every other session stays as it was.
C1_UpdateOfMissingSessionFails ==
    [][ (IsUpdateCall /\ lastOp'.sessionId \notin DOMAIN contexts)
        => /\ lastOp'.threw
           /\ contexts' = contexts
           /\ shortTermMemory' = shortTermMemory
           /\ localStorage' = localStorage
           /\ lastOp'.sessionId \notin DOMAIN contexts'
           /\ lastOp'.sessionId \notin DOMAIN shortTermMemory'
           /\ StorageKey(lastOp'.sessionId) \notin DOMAIN localStorage' ]_vars

\* an update of a missing session has just failed while another session holds messages
C1_Witness ==
    /\ lastOp.op = "updateContext"
    /\ lastOp.threw
    /\ lastOp.sessionId \notin DOMAIN contexts
    /\ \E other \in DOMAIN contexts : Len(contexts[other].messages) > 0

\* C2: createContext(id) does not fail and getContext(id) right after it returns an
\* aggregate with sessionId id, no messages and zero message and topic counters,
\* with a fresh short-term memory; this holds too when id already had a context.
C2_CreateThenGetIsFresh ==
    lastOp.op = "createContext"
    => /\ ~lastOp.threw
       /\ getContext(lastOp.sessionId) # Null
       /\ getContext(lastOp.sessionId).sessionId = lastOp.sessionId
       /\ getContext(lastOp.sessionId).messages = << >>
       /\ getContext(lastOp.sessionId).metadata.messageCount = 0
       /\ getContext(lastOp.sessionId).metadata.topicCount = 0
       /\ lastOp.sessionId \in DOMAIN shortTermMemory
       /\ shortTermMemory[lastOp.sessionId].recentTopics = << >>
       /\ shortTermMemory[lastOp.sessionId].mentionedConcepts = << >>
       /\ shortTermMemory[lastOp.sessionId].userPreferences = << >>

\* createContext has just been called for an id whose earlier context had received
\* messages (its persisted copy still shows them)
C2_Witness ==
    /\ lastOp.op = "createContext"
    /\ StorageKey(lastOp.sessionId) \in DOMAIN localStorage
    /\ localStorage[StorageKey(lastOp.sessionId)].json.metadata.messageCount > 0
    /\ Len(localStorage[StorageKey(lastOp.sessionId)].json.userProfile.interests) > 0

C7_LevelChangeIsGatedByConfidence ==
    [][ (/\ IsUpdateCall
         /\ ~lastOp'.threw
         /\ lastOp'.analysis # NoAnalysis
         /\ lastOp'.analysis.userLevel # contexts[lastOp'.sessionId].userProfile.detectedLevel)
        => contexts'[lastOp'.sessionId].userProfile.detectedLevel
             = IF lastOp'.analysis.confidence > 80
               THEN lastOp'.analysis.userLevel
               ELSE contexts[lastOp'.sessionId].userProfile.detectedLevel ]_vars

\* a level raised to advanced by a confident analysis has just survived an analysis
\* that says beginner with confidence exactly 0.8
C7_Witness ==
    /\ lastOp.op = "updateContext"
    /\ ~lastOp.threw
    /\ lastOp.analysis # NoAnalysis
    /\ lastOp.analysis.userLevel = "beginner"
    /\ lastOp.analysis.confidence = 80
    /\ contexts[lastOp.sessionId].userProfile.detectedLevel = "advanced"

\* C12: updateContext with an analysis appends one entry to topicHistory exactly when
\* the topic inferred from the analysis differs from the current topic, and then
\* currentTopic becomes that topic; otherwise topicHistory and currentTopic stay as
\* they were.  After the call every recorded transition of every session has
\* fromTopic different from toTopic and the last one's toTopic is the current topic.
C12_TransitionOnlyOnTopicChange ==
    [][ (IsUpdateCall /\ ~lastOp'.threw /\ lastOp'.analysis # NoAnalysis)
        => LET old == contexts[lastOp'.sessionId].conversationFlow
               new == contexts'[lastOp'.sessionId].conversationFlow
               topic == extractTopicFromAnalysis(lastOp'.analysis)
           IN  /\ topic # old.currentTopic
                     => /\ Len(new.topicHistory) = Len(old.topicHistory) + 1
                        /\ SubSeq(new.topicHistory, 1, Len(old.topicHistory)) = old.topicHistory
                        /\ new.topicHistory[Len(new.topicHistory)].fromTopic = old.currentTopic
                        /\ new.topicHistory[Len(new.topicHistory)].toTopic = topic
                        /\ new.currentTopic = topic
               /\ topic = old.currentTopic
                     => /\ new.topicHistory = old.topicHistory
                        /\ new.currentTopic = old.currentTopic
               /\ \A sessionId \in DOMAIN contexts' :
                     LET flow == contexts'[sessionId].conversationFlow
                     IN  /\ \A i \in 1..Len(flow.topicHistory) :
                               flow.topicHistory[i].fromTopic # flow.topicHistory[i].toTopic
                         /\ Len(flow.topicHistory) > 0
                               => flow.topicHistory[Len(flow.topicHistory)].toTopic
                                    = flow.currentTopic ]_vars

\* two analysed messages on the same topic: the first recorded the transition, the
\* second has just left the history at that one entry
C12_Witness ==
    /\ lastOp.op = "updateContext"
    /\ ~lastOp.threw
    /\ lastOp.analysis # NoAnalysis
    /\ contexts[lastOp.sessionId].metadata.messageCount = 2
    /\ contexts[lastOp.sessionId].userProfile.interactionCount = 2
    /\ Len(contexts[lastOp.sessionId].conversationFlow.topicHistory) = 1
    /\ contexts[lastOp.sessionId].conversationFlow.topicHistory[1].toTopic
          = extractTopicFromAnalysis(lastOp.analysis)

(***************************************************************************)
(* One session through many topics and keywords: SpecProfile               *)
(***************************************************************************)

\* analyses offered to updateContext under SpecProfile: the five categories of
\* topicMap and one the model answered outside it, thirteen keywords in all
ProfileAnalyses ==
    { Analysis("ask", "positive", 90, "beginner", <<"python", "javascript", "react">>, "programming"),
      Analysis("greet", "positive", 70, "intermediate", <<"web", "api">>, "greeting"),
      Analysis("joke", "neutral", 60, "intermediate", <<"git", "npm", "scrum">>, "joke"),
      Analysis("ask", "neutral", 85, "advanced", <<"oop", "algorithm", "tdd">>, "general"),
      Analysis("ask", "negative", 40, "intermediate", <<"framework", "java">>, "cecade_info"),
      Analysis("debug", "negative", 95, "advanced", <<"python", "bucles">>, "debugging") }

NextProfile ==
    \/ /\ Counted(MaxProfileCalls)
       /\ CreateContext("s1", NoProfileSeed)
       /\ UNCHANGED uiVars
    \/ \E analysis \in ProfileAnalyses :
          /\ Counted(MaxProfileCalls)
          /\ UpdateContext("s1", MessageLong, analysis, FALSE)
          /\ UNCHANGED uiVars

SpecProfile == Init /\ [][NextProfile]_vars

\* no two entries of seq are equal
NoDuplicates(seq) == \A i, j \in 1..Len(seq) : i # j => seq[i] # seq[j]

\* C4: every session's recentTopics has at most 5 entries and no two adjacent entries
\* are equal.
C4_RecentTopicsBounded ==
    \A sessionId \in DOMAIN shortTermMemory :
        LET recentTopics == shortTermMemory[sessionId].recentTopics
        IN  /\ Len(recentTopics) <= 5
            /\ \A i \in 1..(Len(recentTopics) - 1) : recentTopics[i] # recentTopics[i + 1]

\* a sixth topic has pushed the oldest one out of the list and is its last entry
C4_Witness ==
    /\ "s1" \in DOMAIN shortTermMemory
    /\ "s1" \in DOMAIN contexts
    /\ Len(shortTermMemory["s1"].recentTopics) = 5
    /\ Len(contexts["s1"].activeTopics) = 6
    /\ ~Includes(shortTermMemory["s1"].recentTopics, contexts["s1"].activeTopics[1])
    /\ shortTermMemory["s1"].recentTopics[5] = contexts["s1"].activeTopics[6]

\* C5: after an updateContext call that carries an analysis, interests has at most 10
\* entries and no duplicates; what is kept of the earlier list is its most recent
\* part, in the same order, followed by the keywords this call added, so the keyword
\* added last is the last entry and whatever was dropped was the oldest.
C5_InterestsBoundedInOrder ==
    [][ (IsUpdateCall /\ ~lastOp'.threw /\ lastOp'.analysis # NoAnalysis)
        => LET old == contexts[lastOp'.sessionId].userProfile.interests
               new == contexts'[lastOp'.sessionId].userProfile.interests
               keywords == lastOp'.analysis.keywords
               fresh == {i \in 1..Len(keywords) : ~Includes(old, keywords[i])}
           IN  /\ Len(new) <= 10
               /\ NoDuplicates(new)
               /\ \E dropped \in 0..Len(old) :
                     /\ dropped > 0 => Len(new) = 10
                     /\ Len(new) >= Len(old) - dropped
                     /\ \A i \in 1..(Len(old) - dropped) : new[i] = old[dropped + i]
                     /\ \A i \in (Len(old) - dropped + 1)..Len(new) :
                           \E k \in fresh : new[i] = keywords[k]
                     /\ \A i, j \in (Len(old) - dropped + 1)..Len(new) :
                           i < j => \E k, l \in fresh :
                                       k < l /\ new[i] = keywords[k] /\ new[j] = keywords[l]
               /\ fresh # {} =>
                     /\ Len(new) > 0
                     /\ new[Len(new)] = keywords[CHOOSE k \in fresh : \A l \in fresh : l <= k] ]_vars

\* the list is full, a keyword mentioned earlier in the session has been dropped from
\* it, and the last keyword of the last analysis is its last entry
C5_Witness ==
    /\ "s1" \in DOMAIN contexts
    /\ "s1" \in DOMAIN shortTermMemory
    /\ lastOp.op = "updateContext"
    /\ lastOp.analysis # NoAnalysis
    /\ Len(contexts["s1"].userProfile.interests) = 10
    /\ \E i \in 1..Len(shortTermMemory["s1"].mentionedConcepts) :
          ~Includes(contexts["s1"].userProfile.interests,
                    shortTermMemory["s1"].mentionedConcepts[i].concept)
    /\ contexts["s1"].userProfile.interests[10]
          = lastOp.analysis.keywords[Len(lastOp.analysis.keywords)]

\* C6: the stored userProfile.preferredTopics holds at most 5 categories.
C6_PreferredTopicsAtMostFive ==
    \A sessionId \in DOMAIN contexts :
        Len(contexts[sessionId].userProfile.preferredTopics) <= 5

\* C11: after an updateContext call that carries an analysis, userEngagementLevel is
\* high when score >= 3, medium when 1 <= score < 3 and low otherwise, where score is
\* 2 for a positive sentiment, +1 for confidence > 0.8, +1 for messageCount > 5, +1 for
\* more than 2 active topics, -1 for a negative sentiment, -1 for confidence < 0.5.
C11_EngagementFollowsScore ==
    (/\ lastOp.op = "updateContext"
     /\ ~lastOp.threw
     /\ lastOp.analysis # NoAnalysis)
    => LET context == contexts[lastOp.sessionId]
           positive == IF lastOp.analysis.sentiment = "positive" THEN 2 ELSE 0
           confident == IF lastOp.analysis.confidence > 80 THEN 1 ELSE 0
           long == IF context.metadata.messageCount > 5 THEN 1 ELSE 0
           varied == IF Len(context.activeTopics) > 2 THEN 1 ELSE 0
           negative == IF lastOp.analysis.sentiment = "negative" THEN 1 ELSE 0
           unsure == IF lastOp.analysis.confidence < 50 THEN 1 ELSE 0
           score == positive + confident + long + varied - negative - unsure
           level == context.conversationFlow.userEngagementLevel
       IN  /\ score >= 3 => level = "high"
           /\ (score >= 1 /\ score < 3) => level = "medium"
           /\ score < 1 => level = "low"

\* positive sentiment, confidence 0.9, the sixth message and three active topics:
\* score 5, high
C11_Witness ==
    /\ "s1" \in DOMAIN contexts
    /\ lastOp.op = "updateContext"
    /\ lastOp.analysis # NoAnalysis
    /\ lastOp.analysis.sentiment = "positive"
    /\ lastOp.analysis.confidence = 90
    /\ contexts["s1"].metadata.messageCount = 6
    /\ Len(contexts["s1"].activeTopics) = 3
    /\ contexts["s1"].conversationFlow.userEngagementLevel = "high"

(***************************************************************************)
(* One long session: SpecStage                                             *)
(***************************************************************************)

StageMessage == [id |-> "m1", type |-> "user", content |-> "hola"]

\* analyses offered to updateContext under SpecStage: three topics
StageAnalyses ==
    { Analysis("ask", "neutral", 70, "intermediate", << >>, "programming"),
      Analysis("ask", "neutral", 70, "intermediate", << >>, "joke"),
      Analysis("ask", "neutral", 70, "intermediate", << >>, "cecade_info") }

NextStage ==
    \/ /\ Counted(MaxStageCalls)
       /\ CreateContext("s1", NoProfileSeed)
       /\ UNCHANGED uiVars
    \/ \E analysis \in StageAnalyses \cup {NoAnalysis} :
          /\ Counted(MaxStageCalls)
          /\ UpdateContext("s1", StageMessage, analysis, FALSE)
          /\ UNCHANGED uiVars

SpecStage == Init /\ [][NextStage]_vars

\* C9: after an updateContext call that carries an analysis, conversationStage is the
\* classification of the counters as they stand after the call: greeting if
\* messageCount <= 2, else exploration if topicCount <= 2, else conclusion if
\* messageCount > 10, else deep_dive.
C9_StageFollowsCounters ==
    (/\ lastOp.op = "updateContext"
     /\ ~lastOp.threw
     /\ lastOp.analysis # NoAnalysis)
    => LET context == contexts[lastOp.sessionId]
           stage == context.conversationFlow.conversationStage
       IN  /\ context.metadata.messageCount <= 2 => stage = "greeting"
           /\ (context.metadata.messageCount > 2 /\ context.metadata.topicCount <= 2)
                 => stage = "exploration"
           /\ (context.metadata.messageCount > 10 /\ context.metadata.topicCount > 2)
                 => stage = "conclusion"
           /\ (context.metadata.messageCount \in 3..10 /\ context.metadata.topicCount > 2)
                 => stage = "deep_dive"

\* the third topic has just arrived with the fourth message: deep_dive
C9_Witness ==
    /\ "s1" \in DOMAIN contexts
    /\ lastOp.op = "updateContext"
    /\ lastOp.analysis # NoAnalysis
    /\ contexts["s1"].metadata.messageCount = 4
    /\ contexts["s1"].metadata.topicCount = 3
    /\ Len(contexts["s1"].conversationFlow.topicHistory) = 3
    /\ contexts["s1"].conversationFlow.conversationStage = "deep_dive"

\* C10 as claimed: a session with 12 messages is classified conclusion whatever its
\* topic count.
C10_TwelveMessagesIsConclusion ==
    \A sessionId \in DOMAIN contexts :
        contexts[sessionId].metadata.messageCount = 12
        => determineConversationStage(contexts[sessionId]) = "conclusion"

\* C10 as amended: a session with 12 messages is classified conclusion when its topic
\* count exceeds 2 and exploration when it is 2 or less.
C10_TwelveMessagesByTopicCount ==
    \A sessionId \in DOMAIN contexts :
        contexts[sessionId].metadata.messageCount = 12
        => determineConversationStage(contexts[sessionId])
             = IF contexts[sessionId].metadata.topicCount > 2 THEN "conclusion"
               ELSE "exploration"

\* the twelfth message of a session with three topics has been analysed: conclusion
C10_Witness ==
    /\ "s1" \in DOMAIN contexts
    /\ lastOp.op = "updateContext"
    /\ lastOp.analysis # NoAnalysis
    /\ contexts["s1"].metadata.messageCount = 12
    /\ contexts["s1"].metadata.topicCount = 3
    /\ contexts["s1"].conversationFlow.conversationStage = "conclusion"

\* position of a stage in the order greeting, exploration, deep_dive, conclusion
StageRank(stage) ==
    CASE stage = "greeting" -> 0
      [] stage = "exploration" -> 1
      [] stage = "deep_dive" -> 2
      [] stage = "conclusion" -> 3

\* the step is an updateContext call on a stored session that moves its stage backward
StageMovesBackward ==
    /\ IsUpdateCall
    /\ lastOp'.sessionId \in DOMAIN contexts
    /\ StageRank(contexts'[lastOp'.sessionId].conversationFlow.conversationStage)
          < StageRank(contexts[lastOp'.sessionId].conversationFlow.conversationStage)

\* the contexts a created session can hold after n updateContext calls
RECURSIVE ContextsAfter(_)
ContextsAfter(n) ==
    IF n = 0 THEN { freshContext("s1", NoProfileSeed) }
    ELSE { updatedContext(context, StageMessage, analysis) :
              context \in ContextsAfter(n - 1),
              analysis \in StageAnalyses \cup {NoAnalysis} }

\* C28 as claimed: there is a sequence of updateContext calls on a created session
\* (here of at most MaxTurns calls) whose last call moves conversationStage
\* backward in the order greeting, exploration, deep_dive, conclusion.
C28_SomeSequenceMovesTheStageBackward ==
    \E n \in 0..(MaxTurns - 1) :
        \E context \in ContextsAfter(n), analysis \in StageAnalyses \cup {NoAnalysis} :
            StageRank(updatedContext(context, StageMessage, analysis)
                          .conversationFlow.conversationStage)
              < StageRank(context.conversationFlow.conversationStage)

\* C28 as amended: no updateContext call on a created session moves conversationStage
\* backward in the order greeting, exploration, deep_dive, conclusion.
C28_StageNeverMovesBackward == [][~StageMovesBackward]_vars

\* a session in deep_dive has received three further messages, two of them analysed
\* with topics it already had, and is still in deep_dive
C28_Witness ==
    /\ "s1" \in DOMAIN contexts
    /\ lastOp.op = "updateContext"
    /\ lastOp.analysis # NoAnalysis
    /\ contexts["s1"].metadata.messageCount = 7
    /\ contexts["s1"].metadata.topicCount = 3
    /\ Len(contexts["s1"].conversationFlow.topicHistory) = 5
    /\ contexts["s1"].conversationFlow.conversationStage = "deep_dive"

(***************************************************************************)
(* The life of the store: time, expiry, reset and reload: SpecLifecycle    *)
(*                                                                         *)
(* A key of localStorage is the pair of its prefix and the rest:           *)
(* "context_s1" is <<"context_", "s1">>, a key that does not start with    *)
(* "context_" has an empty prefix.                                         *)
(***************************************************************************)

\* 24 * 60 * 60 * 1000
DayMs == 24 * 60 * 60 * 1000

\* the clock moves in steps of half a retention window
HalfWindow == (contextRetentionDays * DayMs) \div 2

\* String.prototype.startsWith
startsWith(key, prefix) == key[1] = prefix

\* key.replace('context_', '') of a key that starts with it
sessionIdOf(key) == key[2]

\* STORAGE_KEY of ConfigService
ConfigKey == <<"", "cecade_assistant_config">>

\* Map.prototype.delete / localStorage.removeItem over a set of keys
Remove(map, keys) == [k \in (DOMAIN map) \ keys |-> map[k]]

\* the clock advances
Tick(elapsed) ==
    /\ now + elapsed <= MaxTicks * elapsed
    /\ now' = now + elapsed
    /\ UNCHANGED <<contexts, shortTermMemory, localStorage, activeContexts, appended, lastOp,
                   calls, profileIn, queryResult, queryIn, sentimentVars, uiVars, longTermMemory, persistWarned>>

\* ConfigService.saveConfig
SaveConfig ==
    /\ localStorage' = MapSet(localStorage, ConfigKey, "config")
    /\ UNCHANGED <<contexts, shortTermMemory, activeContexts, appended, lastOp, calls,
                   profileIn, queryResult, queryIn, sentimentVars, uiVars, now, longTermMemory, persistWarned>>

\* faulty variant: a context expires already at the end of the window
isExpired_at_window(context) ==
    now - context.lastInteraction >= contextRetentionDays * DayMs

\* age > retentionMs
isExpired(context) ==
    now - context.lastInteraction > contextRetentionDays * DayMs

\* the timer of setupAutoCleanup fires
CleanupExpiredContexts ==
    LET expired == {sessionId \in DOMAIN contexts : isExpired(contexts[sessionId])}
    IN  /\ contexts' = Remove(contexts, expired)
        /\ shortTermMemory' = Remove(shortTermMemory, expired)
        /\ localStorage' = Remove(localStorage, {StorageKey(sessionId) : sessionId \in expired})
        /\ activeContexts' = activeContexts - Cardinality(expired)
        /\ lastOp' = Call("cleanupExpiredContexts", "", FALSE, Null, NoAnalysis)
        /\ persistWarned' = FALSE
        /\ UNCHANGED <<appended, profileIn, queryResult, queryIn, sentimentVars, uiVars, now, longTermMemory>>

\* faulty variant: localStorage.clear()
removeContextKeys_clears_storage(storage) == EmptyMap

\* the loop of clearAllContexts over localStorage, from the last key to the first
removeContextKeys(storage) ==
    Remove(storage, {key \in DOMAIN storage : startsWith(key, "context_")})

ClearAllContexts ==
    /\ contexts' = EmptyMap
    /\ shortTermMemory' = EmptyMap
    /\ longTermMemory' = EmptyMap
    /\ activeContexts' = 0
    /\ localStorage' = removeContextKeys(localStorage)
    /\ lastOp' = Call("clearAllContexts", "", FALSE, Null, NoAnalysis)
    /\ persistWarned' = FALSE
    /\ UNCHANGED <<appended, profileIn, queryResult, queryIn, sentimentVars, uiVars, now>>

\* the map loadPersistedContexts fills from the "context_" keys of localStorage
loadPersistedContexts ==
    LET keys == {key \in DOMAIN localStorage : startsWith(key, "context_")}
    IN  [sessionId \in {sessionIdOf(key) : key \in keys} |->
            reviveContext(localStorage[StorageKey(sessionId)])]

\* new ContextService(config) after the page was loaded again: the maps start empty
\* and initialize() loads what localStorage holds
Construct ==
    /\ contexts' = loadPersistedContexts
    /\ shortTermMemory' = EmptyMap
    /\ longTermMemory' = EmptyMap
    /\ activeContexts' = Cardinality(DOMAIN loadPersistedContexts)
    /\ appended' = [sessionId \in Sessions |->
                      IF sessionId \in DOMAIN loadPersistedContexts
                      THEN loadPersistedContexts[sessionId].messages ELSE << >>]
    /\ lastOp' = Call("new", "", FALSE, Null, NoAnalysis)
    /\ persistWarned' = FALSE
    /\ UNCHANGED <<localStorage, profileIn, queryResult, queryIn, sentimentVars, uiVars, now>>

\* the analysis offered to updateContext under SpecLifecycle
LifecycleAnalyses ==
    { Analysis("ask", "positive", 90, "beginner", <<"python">>, "programming") }

NextLifecycle ==
    \/ \E sessionId \in Sessions :
          /\ Counted(MaxLifecycleCalls)
          /\ CreateContext(sessionId, NoProfileSeed)
          /\ UNCHANGED uiVars
    \/ \E sessionId \in Sessions, analysis \in LifecycleAnalyses \cup {NoAnalysis} :
          /\ Counted(MaxLifecycleCalls)
          /\ UpdateContext(sessionId, StageMessage, analysis, FALSE)
          /\ UNCHANGED uiVars
    \/ /\ Counted(MaxLifecycleCalls)
       /\ CleanupExpiredContexts
    \/ /\ Counted(MaxLifecycleCalls)
       /\ ClearAllContexts
    \/ /\ Counted(MaxLifecycleCalls)
       /\ Construct
    \/ Tick(HalfWindow)
    \/ SaveConfig

SpecLifecycle == Init /\ [][NextLifecycle]_vars

\* C13: updateContext without an analysis appends the message and sets lastInteraction
\* to the present, messageCount one higher and duration to the time since startTime; it
\* leaves the conversation flow, the active topics, topicCount, the user profile and
\* the short-term memory as they were.
C13_NoAnalysisTouchesOnlyCounters ==
    [][ (IsUpdateCall /\ ~lastOp'.threw /\ lastOp'.analysis = NoAnalysis)
        => LET old == contexts[lastOp'.sessionId]
               new == contexts'[lastOp'.sessionId]
           IN  /\ appended'[lastOp'.sessionId] = Append(appended[lastOp'.sessionId], lastOp'.message)
               /\ Len(new.messages) > 0
               /\ new.messages[Len(new.messages)] = lastOp'.message
               /\ new.lastInteraction = now
               /\ new.metadata.messageCount = old.metadata.messageCount + 1
               /\ new.metadata.duration = now - old.metadata.startTime
               /\ new.metadata.startTime = old.metadata.startTime
               /\ new.conversationFlow = old.conversationFlow
               /\ new.activeTopics = old.activeTopics
               /\ new.metadata.topicCount = old.metadata.topicCount
               /\ new.userProfile = old.userProfile
               /\ shortTermMemory' = shortTermMemory ]_vars

\* a message without analysis has just arrived, later than the session started, in a
\* session whose flow, profile and memory an earlier analysis had filled
C13_Witness ==
    /\ lastOp.op = "updateContext"
    /\ ~lastOp.threw
    /\ lastOp.analysis = NoAnalysis
    /\ lastOp.sessionId \in DOMAIN shortTermMemory
    /\ contexts[lastOp.sessionId].lastInteraction = now
    /\ contexts[lastOp.sessionId].metadata.duration > 0
    /\ contexts[lastOp.sessionId].conversationFlow.currentTopic = "programming_concepts"
    /\ contexts[lastOp.sessionId].userProfile.interactionCount = 1
    /\ shortTermMemory[lastOp.sessionId].recentTopics = <<"programming_concepts">>

\* C14: a session id has a short-term memory exactly when it has a context in the
\* store, at every point: after creation, after a reload from localStorage, after
\* expiry and after clearAllContexts.
C14_MemoryIffContext ==
    DOMAIN shortTermMemory = DOMAIN contexts

\* C30: the activeContexts counter equals the number of contexts held in the store,
\* after any sequence of start-up load, createContext (also for an id that already
\* has a context), cleanup and clearAllContexts.
C30_CounterIsStoreSize ==
    activeContexts = Cardinality(DOMAIN contexts)

\* the step is a run of the cleanup pass
IsCleanupCall == calls' # calls /\ lastOp'.op = "cleanupExpiredContexts"

\* C15: a run of the cleanup pass removes exactly the sessions whose lastInteraction
\* lies more than contextRetentionDays back: their context, short-term memory and
\* persisted copy are gone afterwards and getContext finds nothing, while every other
\* session keeps its context, its memory and its persisted copy as they were.
C15_CleanupRemovesExactlyTheExpired ==
    [][ IsCleanupCall
        => /\ DOMAIN contexts' \subseteq DOMAIN contexts
           /\ \A sessionId \in DOMAIN contexts :
                 IF now - contexts[sessionId].lastInteraction > contextRetentionDays * DayMs
                 THEN /\ sessionId \notin DOMAIN contexts'
                      /\ sessionId \notin DOMAIN shortTermMemory'
                      /\ StorageKey(sessionId) \notin DOMAIN localStorage'
                 ELSE /\ sessionId \in DOMAIN contexts'
                      /\ contexts'[sessionId] = contexts[sessionId]
                      /\ (sessionId \in DOMAIN shortTermMemory) = (sessionId \in DOMAIN shortTermMemory')
                      /\ sessionId \in DOMAIN shortTermMemory
                            => shortTermMemory'[sessionId] = shortTermMemory[sessionId]
                      /\ (StorageKey(sessionId) \in DOMAIN localStorage)
                            = (StorageKey(sessionId) \in DOMAIN localStorage')
                      /\ StorageKey(sessionId) \in DOMAIN localStorage
                            => localStorage'[StorageKey(sessionId)] = localStorage[StorageKey(sessionId)] ]_vars

\* the cleanup pass has just removed a session that had received a message and left
\* one whose last interaction lies exactly the retention window back, with its
\* persisted copy
C15_Witness ==
    /\ lastOp.op = "cleanupExpiredContexts"
    /\ calls = 5
    /\ activeContexts = 1
    /\ \E gone \in Sessions \ DOMAIN contexts :
          /\ appended[gone] # << >>
          /\ gone \notin DOMAIN shortTermMemory
          /\ StorageKey(gone) \notin DOMAIN localStorage
    /\ \E kept \in DOMAIN contexts :
          /\ now - contexts[kept].lastInteraction = contextRetentionDays * DayMs
          /\ kept \in DOMAIN shortTermMemory
          /\ StorageKey(kept) \in DOMAIN localStorage

\* the step is a call of clearAllContexts
IsClearCall == calls' # calls /\ lastOp'.op = "clearAllContexts"

\* C16: after clearAllContexts, getContext finds no session, no short-term or
\* long-term memory remains, the active-context count is 0 and localStorage holds no
\* key that starts with "context_"; its other entries are as they were.
C16_ClearAllWipesTheStore ==
    [][ IsClearCall
        => /\ \A sessionId \in Sessions : sessionId \notin DOMAIN contexts'
           /\ contexts' = EmptyMap
           /\ shortTermMemory' = EmptyMap
           /\ longTermMemory' = EmptyMap
           /\ activeContexts' = 0
           /\ \A key \in DOMAIN localStorage' : key[1] # "context_"
           /\ \A key \in DOMAIN localStorage :
                 key[1] # "context_"
                 => key \in DOMAIN localStorage' /\ localStorage'[key] = localStorage[key] ]_vars

\* clearAllContexts has just emptied a store in which both sessions had received
\* messages, and the assistant configuration is still in localStorage
C16_Witness ==
    /\ lastOp.op = "clearAllContexts"
    /\ calls = 5
    /\ \A sessionId \in Sessions : appended[sessionId] # << >>
    /\ contexts = EmptyMap
    /\ activeContexts = 0
    /\ DOMAIN localStorage = {ConfigKey}

(***************************************************************************)
(* A store whose writes to localStorage may fail: SpecStorage              *)
(***************************************************************************)

NextStorage ==
    \/ \E sessionId \in Sessions :
          /\ Counted(MaxStorageCalls)
          /\ CreateContext(sessionId, NoProfileSeed)
          /\ UNCHANGED uiVars
    \/ \E sessionId \in Sessions, analysis \in LifecycleAnalyses \cup {NoAnalysis},
          storageFails \in BOOLEAN :
          /\ Counted(MaxStorageCalls)
          /\ UpdateContext(sessionId, StageMessage, analysis, storageFails)
          /\ UNCHANGED uiVars
    \/ Tick(HalfWindow)

SpecStorage == Init /\ [][NextStorage]_vars

\* C17: when the write of the persisted copy fails during updateContext, the call
\* still returns normally and the stored context holds the new message and the
\* advanced counters; localStorage keeps what it held.
C17_PersistFailureIsSwallowed ==
    [][ (IsUpdateCall /\ lastOp'.sessionId \in DOMAIN contexts /\ persistWarned')
        => LET old == contexts[lastOp'.sessionId]
               new == contexts'[lastOp'.sessionId]
           IN  /\ ~lastOp'.threw
               /\ Len(new.messages) > 0
               /\ new.messages[Len(new.messages)] = lastOp'.message
               /\ new.metadata.messageCount = old.metadata.messageCount + 1
               /\ new.lastInteraction = now
               /\ lastOp'.analysis # NoAnalysis
                     => new.userProfile.interactionCount = old.userProfile.interactionCount + 1
               /\ localStorage' = localStorage ]_vars

\* the second message of a session has just been stored in memory while its write to
\* localStorage failed: the persisted copy still shows one message
C17_Witness ==
    /\ lastOp.op = "updateContext"
    /\ ~lastOp.threw
    /\ persistWarned
    /\ contexts[lastOp.sessionId].metadata.messageCount = 2
    /\ StorageKey(lastOp.sessionId) \in DOMAIN localStorage
    /\ localStorage[StorageKey(lastOp.sessionId)].json.metadata.messageCount = 1

(***************************************************************************)
(* GeminiAIService: one query through processQuery: SpecQuery              *)
(*                                                                         *)
(* A query is the sequence of its words and of the single spaces between   *)
(* them.  A reply of the external model either throws or is a text; of a   *)
(* text the model keeps what parseAIResponse makes of it (no {...} block,  *)
(* a block JSON.parse rejects, or the parsed object with the fields it     *)
(* has) and, for the response call, the text itself.  Of AIAnalysis the    *)
(* fields                                                                  *)
(* suggestedResponse, context and urgency are copied through and read by   *)
(* nothing modelled; they are left out.                                    *)
(***************************************************************************)

RECURSIVE SplitFrom(_, _, _)
SplitFrom(pieces, word, words) ==
    IF pieces = << >> THEN Append(words, word)
    ELSE IF Head(pieces) = " " THEN SplitFrom(Tail(pieces), "", Append(words, word))
    ELSE SplitFrom(Tail(pieces), Head(pieces), words)

\* query.split(' '): two spaces in a row yield an empty word
Split(query) == SplitFrom(query, "", << >>)

\* Array.prototype.slice(0, n)
SliceFirst(seq, n) == IF Len(seq) > n THEN SubSeq(seq, 1, n) ELSE seq

\* faulty variant: every word of the query becomes a keyword
createFallbackAnalysis_keeps_all_words(query) ==
    Analysis("general_inquiry", "neutral", 50, "intermediate", Split(query), "general")

createFallbackAnalysis(query) ==
    Analysis("general_inquiry", "neutral", 50, "intermediate",
             SliceFirst(Split(query), 3), "general")

Throws == [kind |-> "throws"]

NoJsonBlock == [kind |-> "text", block |-> "none"]

MalformedJson == [kind |-> "text", block |-> "malformed"]

Json(object) == [kind |-> "text", block |-> "json", object |-> object]

\* parseAIResponse: the object parsed from the first {...} block, {} when there is
\* none or JSON.parse rejects it
parseAIResponse(reply) ==
    IF reply.block = "json" THEN reply.object ELSE [empty |-> TRUE]

\* analysisData.field || fallback, for a field whose falsy values are undefined and ""
OrDefault(analysisData, field, fallback) ==
    IF field \in DOMAIN analysisData /\ analysisData[field] # "" THEN analysisData[field]
    ELSE fallback

\* analysisData.confidence || 0.7: undefined and 0 are falsy
ConfidenceOrDefault(analysisData) ==
    IF "confidence" \in DOMAIN analysisData /\ analysisData.confidence # 0
    THEN analysisData.confidence
    ELSE 70

\* analysisData.keywords || []: an array is never falsy
KeywordsOrDefault(analysisData) ==
    IF "keywords" \in DOMAIN analysisData THEN analysisData.keywords ELSE << >>

analyzeQuery(query, reply) ==
    IF reply.kind = "throws" THEN createFallbackAnalysis(query)
    ELSE LET analysisData == parseAIResponse(reply)
         IN  Analysis(OrDefault(analysisData, "intent", "general_inquiry"),
                      OrDefault(analysisData, "sentiment", "neutral"),
                      ConfidenceOrDefault(analysisData),
                      OrDefault(analysisData, "userLevel", "intermediate"),
                      KeywordsOrDefault(analysisData),
                      OrDefault(analysisData, "category", "general"))

determineEmotion(analysis) ==
    IF analysis.sentiment = "positive"
    THEN (IF analysis.category = "joke" THEN "happy" ELSE "excited")
    ELSE IF analysis.sentiment = "negative" THEN "empathetic"
    ELSE IF analysis.category = "programming" THEN "thinking"
    ELSE "neutral"

FallbackContent == "Disculpa, estoy teniendo dificultades para procesar tu consulta en este momento."

createFallbackResponse(query, analysis) ==
    [content |-> FallbackContent, confidence |-> 30, emotion |-> "neutral",
     adaptedLevel |-> analysis.userLevel]

\* responseText.trim()
Trim(text) == IF text = "  " THEN "" ELSE text

generateResponse(query, analysis, reply) ==
    IF reply.kind = "throws" THEN createFallbackResponse(query, analysis)
    ELSE [content |-> Trim(reply.text), confidence |-> analysis.confidence,
          emotion |-> determineEmotion(analysis), adaptedLevel |-> analysis.userLevel]

updateInterests(currentInterests, newKeywords) ==
    SliceLast(pushNewKeywords(currentInterests, newKeywords), MaxInterests)

updatePreferredTopics(currentTopics, newCategory) ==
    SliceLast(IF ~Includes(currentTopics, newCategory) THEN Append(currentTopics, newCategory)
              ELSE currentTopics,
              MaxPreferredTopics)

aiUpdateUserProfile(currentProfile, analysis) ==
    [currentProfile EXCEPT
       !.detectedLevel = analysis.userLevel,
       !.sentiment = analysis.sentiment,
       !.interests = updateInterests(@, analysis.keywords),
       !.preferredTopics = updatePreferredTopics(@, analysis.category),
       !.interactionCount = @ + 1]

processQuery(query, userProfile, analysisReply, responseReply) ==
    LET analysis == analyzeQuery(query, analysisReply)
        response == generateResponse(query, analysis, responseReply)
    IN  [analysis |-> analysis,
         response |-> response,
         updatedProfile |-> aiUpdateUserProfile(userProfile, analysis)]

\* queries: one word, four words, two words two spaces apart
Queries ==
    { <<"hola">>,
      <<"que", " ", "es", " ", "un", " ", "bucle">>,
      <<"python", " ", " ", "web">> }

\* what the analysis call may come back with
AnalysisReplies ==
    { Throws, NoJsonBlock, MalformedJson,
      Json([userLevel |-> "advanced", confidence |-> 90, sentiment |-> "positive",
            keywords |-> <<"python">>, category |-> "programming", intent |-> "ask"]),
      Json([userLevel |-> "beginner", confidence |-> 80, category |-> "debugging"]),
      Json([userLevel |-> "advanced", confidence |-> 0, sentiment |-> "negative"]),
      Json([sentiment |-> "", keywords |-> <<"git", "python">>]) }

\* what the response call may come back with
ResponseReplies ==
    { Throws, [kind |-> "text", text |-> "respuesta"], [kind |-> "text", text |-> "  "] }

\* the profiles of the context handed to processQuery
QueryProfiles ==
    { [defaultProfile EXCEPT !.detectedLevel = level, !.interests = interests]
        : level \in {"beginner", "intermediate", "advanced"},
          interests \in { << >>, <<"python", "web">> } }

ProcessQuery(query, userProfile, analysisReply, responseReply) ==
    /\ profileIn' = userProfile
    /\ queryResult' = processQuery(query, userProfile, analysisReply, responseReply)
    /\ queryIn' = [query |-> query, analysisReply |-> analysisReply,
                   responseReply |-> responseReply]
    /\ UNCHANGED <<contexts, shortTermMemory, localStorage, activeContexts, appended,
                   lastOp, calls, now, longTermMemory, persistWarned>>
    /\ UNCHANGED <<sentimentVars, uiVars>>

NextQuery ==
    \E query \in Queries, userProfile \in QueryProfiles,
       analysisReply \in AnalysisReplies, responseReply \in ResponseReplies :
          ProcessQuery(query, userProfile, analysisReply, responseReply)

SpecQuery == Init /\ [][NextQuery]_vars

\* C8: the profile processQuery returns has a detectedLevel other than the one passed
\* in only when the turn's analysis confidence exceeds 0.8.
C8_ReturnedLevelIsGatedByConfidence ==
    queryResult # Null
    => (queryResult.updatedProfile.detectedLevel # profileIn.detectedLevel
        => queryResult.analysis.confidence > 80)

\* the k-th space-separated word of a query: what stands between its (k-1)-th and its
\* k-th space, read off the positions of the spaces
WordOf(query, k) ==
    LET spaces == {i \in 1..Len(query) : query[i] = " "}
        before(i) == Cardinality({j \in spaces : j < i})
        pieces == {i \in 1..Len(query) : query[i] # " " /\ before(i) = k - 1}
    IN  IF pieces = {} THEN "" ELSE query[CHOOSE i \in pieces : TRUE]

\* how many space-separated words a query has
WordCount(query) == Cardinality({i \in 1..Len(query) : query[i] = " "}) + 1

\* keywords are the first three space-separated words of query
AreFirstThreeWords(keywords, query) ==
    /\ Len(keywords) = (IF WordCount(query) < 3 THEN WordCount(query) ELSE 3)
    /\ \A k \in 1..Len(keywords) : keywords[k] = WordOf(query, k)

\* C18: when the model call of analyzeQuery fails, analyzeQuery still returns an
\* analysis: intent general_inquiry, sentiment neutral, confidence 0.5 and the first
\* three space-separated words of the query as keywords.
C18_FailedCallGivesFallbackAnalysis ==
    (queryResult # Null /\ queryIn.analysisReply.kind = "throws")
    => /\ queryResult.analysis.intent = "general_inquiry"
       /\ queryResult.analysis.sentiment = "neutral"
       /\ queryResult.analysis.confidence = 50
       /\ AreFirstThreeWords(queryResult.analysis.keywords, queryIn.query)

\* the model call failed on a query of four words: the first three are the keywords
C18_Witness ==
    /\ queryResult # Null
    /\ queryIn.analysisReply.kind = "throws"
    /\ queryIn.query = <<"que", " ", "es", " ", "un", " ", "bucle">>
    /\ queryResult.analysis.keywords = <<"que", "es", "un">>
    /\ queryResult.analysis.confidence = 50

\* C19: when the model's answer holds no parseable JSON object, analyzeQuery returns
\* the fallback analysis of a failed call: intent general_inquiry, sentiment neutral,
\* confidence 0.5 and the first three words of the query as keywords.
C19_UnparseableAnswerGivesFallbackAnalysis ==
    (/\ queryResult # Null
     /\ queryIn.analysisReply.kind = "text"
     /\ queryIn.analysisReply.block \in {"none", "malformed"})
    => /\ queryResult.analysis.intent = "general_inquiry"
       /\ queryResult.analysis.sentiment = "neutral"
       /\ queryResult.analysis.confidence = 50
       /\ AreFirstThreeWords(queryResult.analysis.keywords, queryIn.query)

(***************************************************************************)
(* SentimentAnalysisService: the cache of analyses: SpecSentiment          *)
(*                                                                         *)
(* analyzeMessageSentiment runs up to its await in one step: it either     *)
(* returns the cached record or calls processQuery and waits; the rest     *)
(* runs in a later step, when processQuery has returned.  processQuery     *)
(* returns a response whatever the model does (a failed model call gives   *)
(* the fallback text), so the catch block of analyzeMessageSentiment is    *)
(* not entered.  Of the response only its content matters: a JSON text     *)
(* with the fields it has, or a text JSON.parse rejects.                   *)
(***************************************************************************)

\* the clock moves in steps of half the life of a cached record
HalfTtl == CacheTtlMs \div 2

SentimentMessages == {"Hola "}

\* userId ("" would stand for the optional argument left out)
UserIds == {"u1"}

\* message.toLowerCase().trim()
toLowerCaseTrim(message) ==
    CASE message = "Hola " -> "hola"
      [] message = "gracias" -> "gracias"
      [] OTHER -> message

generateCacheKey(message, userId) ==
    IF userId # "" THEN <<userId, ":", toLowerCaseTrim(message)>>
    ELSE <<toLowerCaseTrim(message)>>

\* faulty variant: a record counts as stale after half the time
isCacheValid_expires_early(analysis) ==
    now - analysis.timestamp < CacheTtlMs \div 2

isCacheValid(analysis) ==
    now - analysis.timestamp < CacheTtlMs

\* message.slice(0, 10).replace(/\s/g, '') behind "msg_" and the clock
generateMessageId(message) ==
    <<"msg_", now, IF message = "Hola " THEN "Hola" ELSE message>>

\* the keyword count of createBasicSentimentAnalysis: of the messages here only
\* "gracias" holds a word of either list
createBasicSentimentAnalysis(response, message) ==
    LET positiveCount == IF toLowerCaseTrim(message) = "gracias" THEN 1 ELSE 0
        sentiment == IF positiveCount > 0 THEN "positive" ELSE "neutral"
    IN  [sentiment |-> [label |-> sentiment, confidence |-> 60],
         emotions |-> <<sentiment>>,
         intensity |-> positiveCount * 30,
         context |-> "Analisis basico",
         timestamp |-> now,
         messageId |-> generateMessageId(message)]

\* what processQuery's response.content may be
SentimentReplies ==
    { [kind |-> "text"],
      [kind |-> "json", parsed |-> [sentiment |-> "negative", confidence |-> 90,
                                    emotions |-> <<"frustrated">>]] }

parseSentimentResponse(response, originalMessage) ==
    IF response.kind = "json"
    THEN [sentiment |-> [label |-> OrDefault(response.parsed, "sentiment", "neutral"),
                         confidence |-> IF "confidence" \in DOMAIN response.parsed
                                           /\ response.parsed.confidence # 0
                                        THEN response.parsed.confidence ELSE 50],
          emotions |-> IF "emotions" \in DOMAIN response.parsed
                       THEN response.parsed.emotions ELSE <<"neutral">>,
          intensity |-> IF "intensity" \in DOMAIN response.parsed
                           /\ response.parsed.intensity # 0
                        THEN response.parsed.intensity ELSE 50,
          context |-> OrDefault(response.parsed, "context", ""),
          timestamp |-> now,
          messageId |-> generateMessageId(originalMessage)]
    ELSE createBasicSentimentAnalysis(response, originalMessage)

\* what a call returned: the entry of the history
Returned(call, record, external) ==
    [call |-> call.call, message |-> call.message, userId |-> call.userId, at |-> call.at,
     record |-> record, external |-> external]

\* analyzeMessageSentiment up to its await
AnalyzeMessageSentiment(message, userId) ==
    LET cacheKey == generateCacheKey(message, userId)
        call == [call |-> sentimentCalls + 1, message |-> message, userId |-> userId,
                 at |-> now]
    IN  /\ sentimentCalls < MaxSentimentCalls
        /\ sentimentCalls' = sentimentCalls + 1
        /\ IF cacheKey \in DOMAIN analysisCache /\ isCacheValid(analysisCache[cacheKey])
           THEN /\ sentimentLog' = Append(sentimentLog,
                                          Returned(call, analysisCache[cacheKey], FALSE))
                /\ UNCHANGED <<pending, externalCalls>>
           ELSE /\ pending' = pending \cup {call}
                /\ externalCalls' = externalCalls + 1
                /\ UNCHANGED sentimentLog
        /\ UNCHANGED <<analysisCache, contexts, shortTermMemory, localStorage, activeContexts,
                       appended, lastOp, calls, profileIn, queryResult, now, longTermMemory,
                       persistWarned, queryIn, uiVars>>

\* analyzeMessageSentiment after its await: processQuery has returned
SentimentAnalysed(call, response) ==
    LET analysis == parseSentimentResponse(response, call.message)
    IN  /\ call \in pending
        /\ pending' = pending \ {call}
        /\ analysisCache' = MapSet(analysisCache, generateCacheKey(call.message, call.userId),
                                   analysis)
        /\ sentimentLog' = Append(sentimentLog, Returned(call, analysis, TRUE))
        /\ UNCHANGED <<sentimentCalls, externalCalls, contexts, shortTermMemory, localStorage,
                       activeContexts, appended, lastOp, calls, profileIn, queryResult, now,
                       longTermMemory, persistWarned, queryIn, uiVars>>

\* clearCache
ClearCache ==
    /\ analysisCache' = EmptyMap
    /\ UNCHANGED <<pending, sentimentLog, sentimentCalls, externalCalls, contexts,
                   shortTermMemory, localStorage, activeContexts, appended, lastOp, calls,
                   profileIn, queryResult, now, longTermMemory, persistWarned, queryIn, uiVars>>

NextSentiment ==
    \/ \E message \in SentimentMessages, userId \in UserIds :
          AnalyzeMessageSentiment(message, userId)
    \/ \E call \in pending, response \in SentimentReplies :
          SentimentAnalysed(call, response)
    \/ ClearCache
    \/ Tick(HalfTtl)

SpecSentiment == Init /\ [][NextSentiment]_vars

\* C20 as claimed: of any two calls with the same message string and user id, the
\* second made less than 5 minutes after the first, the second returns the record the
\* first returned and makes no external call.
C20_SecondCallWithinFiveMinutesHitsCache ==
    \A i, j \in 1..Len(sentimentLog) :
        (/\ sentimentLog[i].call < sentimentLog[j].call
         /\ sentimentLog[i].message = sentimentLog[j].message
         /\ sentimentLog[i].userId = sentimentLog[j].userId
         /\ sentimentLog[j].at - sentimentLog[i].at < 300000)
        => /\ sentimentLog[j].record = sentimentLog[i].record
           /\ ~sentimentLog[j].external

\* the step is a call of analyzeMessageSentiment(message, userId)
IsSentimentCall(message, userId) ==
    /\ sentimentCalls' = sentimentCalls + 1
    /\ \/ \E call \in pending' \ pending : call.message = message /\ call.userId = userId
       \/ /\ Len(sentimentLog') = Len(sentimentLog) + 1
          /\ sentimentLog'[Len(sentimentLog')].message = message
          /\ sentimentLog'[Len(sentimentLog')].userId = userId

\* C20 as amended: a call made while the cache holds, for its message and user id, a
\* record less than 5 minutes old returns that record and makes no external call.
C20_FreshCachedRecordIsReturned ==
    [][ \A message \in SentimentMessages, userId \in UserIds :
          LET cacheKey == IF userId = "" THEN <<toLowerCaseTrim(message)>>
                          ELSE <<userId, ":", toLowerCaseTrim(message)>>
          IN  (/\ IsSentimentCall(message, userId)
               /\ cacheKey \in DOMAIN analysisCache
               /\ now - analysisCache[cacheKey].timestamp < 300000)
              => /\ Len(sentimentLog') = Len(sentimentLog) + 1
                 /\ sentimentLog'[Len(sentimentLog')].record = analysisCache[cacheKey]
                 /\ ~sentimentLog'[Len(sentimentLog')].external
                 /\ externalCalls' = externalCalls
                 /\ pending' = pending ]_vars

\* a first call was answered by the model; a second call with the identical message,
\* made two and a half minutes later, returned the same record without a model call
C20_Witness ==
    /\ Len(sentimentLog) = 2
    /\ sentimentLog[1].external
    /\ ~sentimentLog[2].external
    /\ sentimentLog[2].message = sentimentLog[1].message
    /\ sentimentLog[2].userId = sentimentLog[1].userId
    /\ sentimentLog[2].at = sentimentLog[1].record.timestamp + 150000
    /\ sentimentLog[2].record = sentimentLog[1].record
    /\ externalCalls = 1

(***************************************************************************)
(* ResponseService, the lexical matcher (src/src/lib/browserDetection.ts): *)
(* SpecMatch.  A text is the sequence of its characters; a score is the    *)
(* fraction totalScore / maxPossibleScore, kept as numerator and           *)
(* denominator.                                                            *)
(***************************************************************************)

\* templates in the catalog of a run of SpecMatch
MaxCatalog == 3

\* String.prototype.toLowerCase, on one character
toLowerCase(char) ==
    CASE char = "H" -> "h"
      [] char = "J" -> "j"
      [] OTHER -> char

\* normalize('NFD') followed by the removal of the combining marks, on one character
removeAccent(char) ==
    CASE char = "a_acute" -> "a"
      [] char = "o_acute" -> "o"
      [] OTHER -> char

\* the characters \w and \s match
WordChars == {"h", "o", "l", "a", "j", "v", "s", "_"}
SpaceChars == {" "}

\* replace(/[^\w\s]/g, ' '), on one character
removePunctuation(char) ==
    IF char \in WordChars \cup SpaceChars THEN char ELSE " "

\* replace(/\s+/g, ' ')
RECURSIVE normalizeSpaces(_)
normalizeSpaces(text) ==
    IF Len(text) = 0 THEN text
    ELSE IF text[1] \in SpaceChars
         THEN IF Len(text) > 1 /\ text[2] \in SpaceChars
              THEN normalizeSpaces(Tail(text))
              ELSE <<" ">> \o normalizeSpaces(Tail(text))
         ELSE <<text[1]>> \o normalizeSpaces(Tail(text))

\* String.prototype.trim
RECURSIVE trim(_)
trim(text) ==
    IF Len(text) = 0 THEN text
    ELSE IF text[1] \in SpaceChars THEN trim(Tail(text))
    ELSE IF text[Len(text)] \in SpaceChars THEN trim(SubSeq(text, 1, Len(text) - 1))
    ELSE text

normalizeText(text) ==
    trim(normalizeSpaces(
        [i \in DOMAIN text |-> removePunctuation(removeAccent(toLowerCase(text[i])))]))

\* String.prototype.includes
includes(text, part) ==
    \E i \in 0..(Len(text) - Len(part)) : SubSeq(text, i + 1, i + Len(part)) = part

\* String.prototype.split(' '): the pieces between the spaces, empty pieces included
RECURSIVE splitFrom(_, _, _)
splitFrom(text, piece, pieces) ==
    IF Len(text) = 0 THEN Append(pieces, piece)
    ELSE IF text[1] = " " THEN splitFrom(Tail(text), << >>, Append(pieces, piece))
    ELSE splitFrom(Tail(text), Append(piece, text[1]), pieces)

split(text) == splitFrom(text, << >>, << >>)

\* Array.prototype.filter(word => word.length > 2)
longWords(words) == SelectSeq(words, LAMBDA word : Len(word) > 2)

\* the inner loops of calculateMatchScore: one point for every pair of a keyword word
\* and an input word, both longer than two characters, of which one includes the other
RECURSIVE wordPoints(_, _)
wordPoints(keywordWords, inputWords) ==
    IF Len(keywordWords) = 0 THEN 0
    ELSE (IF Len(Head(keywordWords)) > 2
          THEN Cardinality({ k \in DOMAIN inputWords :
                                \/ includes(inputWords[k], Head(keywordWords))
                                \/ includes(Head(keywordWords), inputWords[k]) })
          ELSE 0)
         + wordPoints(Tail(keywordWords), inputWords)

\* the loop of calculateMatchScore over the keywords, from the totals so far
RECURSIVE scoreFrom(_, _, _, _)
scoreFrom(input, keywords, totalScore, maxPossibleScore) ==
    IF Len(keywords) = 0
    THEN [totalScore |-> totalScore, maxPossibleScore |-> maxPossibleScore]
    ELSE LET normalizedKeyword == normalizeText(Head(keywords))
             keywordWords == split(normalizedKeyword)
         IN  scoreFrom(input, Tail(keywords),
                       totalScore
                         + (IF includes(input, normalizedKeyword)
                            THEN Len(keywordWords) * 2
                            ELSE wordPoints(keywordWords, longWords(split(input)))),
                       maxPossibleScore + Len(keywordWords))

\* a fraction
Fraction(numerator, denominator) == [numerator |-> numerator, denominator |-> denominator]

\* a > b on fractions with positive denominators
GreaterThan(a, b) == a.numerator * b.denominator > b.numerator * a.denominator

calculateMatchScore(input, keywords) ==
    LET sums == scoreFrom(input, keywords, 0, 0)
    IN  IF sums.maxPossibleScore > 0
        THEN Fraction(sums.totalScore, sums.maxPossibleScore)
        ELSE Fraction(0, 1)

\* the minimum score of a match, 0.3
MatchThreshold == Fraction(3, 10)

\* faulty variant: a later template with the same score replaces the earlier one
replacesBestMatch_on_ties(score, highestScore) ==
    ~GreaterThan(highestScore, score) /\ GreaterThan(score, MatchThreshold)

\* the test of findBestMatch: score > highestScore && score > 0.3
replacesBestMatch(score, highestScore) ==
    GreaterThan(score, highestScore) /\ GreaterThan(score, MatchThreshold)

\* the loop of findBestMatch over the templates, from the best so far
RECURSIVE findBestMatchFrom(_, _, _, _)
findBestMatchFrom(input, responses, bestMatch, highestScore) ==
    IF Len(responses) = 0 THEN bestMatch
    ELSE LET response == Head(responses)
             score == calculateMatchScore(input, response.keywords)
         IN  IF replacesBestMatch(score, highestScore)
             THEN findBestMatchFrom(input, Tail(responses), response, score)
             ELSE findBestMatchFrom(input, Tail(responses), bestMatch, highestScore)

findBestMatch(input, responses) ==
    findBestMatchFrom(input, responses, Null, Fraction(0, 1))

\* words and templates of the catalogs
Hola == <<"h", "o", "l", "a">>
Holas == <<"h", "o", "l", "a", "s">>
Java == <<"j", "a", "v", "a">>
Sal == <<"s", "a", "l">>

Template(id, keywords) ==
    [id |-> id, keywords |-> keywords, response |-> id, emotion |-> "happy"]

Templates ==
    { Template("greeting_001", <<Hola>>),
      Template("greeting_002", <<<<"H", "o", "l", "a", "!">>, Java>>),
      Template("programming_001", <<Java, Hola>>),
      Template("joke_001", <<Holas, Sal, Sal, Sal>>),
      Template("general_001", << >>) }

\* the catalogs: every sequence of at most MaxCatalog templates
RECURSIVE CatalogsOfLength(_)
CatalogsOfLength(n) ==
    IF n = 0 THEN { << >> }
    ELSE { Append(responses, template) :
              responses \in CatalogsOfLength(n - 1), template \in Templates }

Catalogs == UNION { CatalogsOfLength(n) : n \in 0..MaxCatalog }

\* what the user says
UserInputs ==
    { << >>,
      Hola,
      <<"H", "o", "l", "a", "?">>,
      <<"j", "a", "v", "a", " ", " ", "h", "o", "l", "a">>,
      <<"o", "l", "a_acute">> }

\* getResponse up to the default response: the input is normalized and matched
\* against the catalog (the first call of a run)
FindBestMatch(userInput, responses) ==
    /\ lexicalMatch = Null
    /\ lexicalMatch' = [input |-> normalizeText(userInput),
                        responses |-> responses,
                        bestMatch |-> findBestMatch(normalizeText(userInput), responses)]
    /\ UNCHANGED <<serviceVars, sentimentVars, assistant, sending, gemini, conversation,
                   hookVars>>

NextMatch ==
    \E userInput \in UserInputs, responses \in Catalogs :
        FindBestMatch(userInput, responses)

SpecMatch == Init /\ [][NextMatch]_vars

\* the score of the template at position i of the last run
ScoreAt(i) == calculateMatchScore(lexicalMatch.input, lexicalMatch.responses[i].keywords)

\* C25: findBestMatch returns no match when every template's score is at or below 0.3
\* (so for an empty catalog), and otherwise the template with the highest score, the
\* earliest in catalog order among those with the highest score.
C25_BestMatchIsFirstHighestAboveThreshold ==
    lexicalMatch # Null
    => LET positions == DOMAIN lexicalMatch.responses
           above == { i \in positions : GreaterThan(ScoreAt(i), MatchThreshold) }
           highest == { i \in positions :
                           \A j \in positions : ~GreaterThan(ScoreAt(j), ScoreAt(i)) }
       IN  IF above = {}
           THEN lexicalMatch.bestMatch = Null
           ELSE \E i \in highest :
                   /\ \A j \in highest : i <= j
                   /\ lexicalMatch.bestMatch = lexicalMatch.responses[i]

\* a catalog of three templates was matched against "hola": the first scores 1/4, the
\* second and the third both 1, and the second was returned
C25_Witness ==
    /\ lexicalMatch # Null
    /\ lexicalMatch.input = Hola
    /\ Len(lexicalMatch.responses) = 3
    /\ ScoreAt(1) = Fraction(1, 4)
    /\ ScoreAt(2) = Fraction(2, 2)
    /\ ScoreAt(3) = Fraction(2, 2)
    /\ lexicalMatch.responses[2] # lexicalMatch.responses[3]
    /\ lexicalMatch.bestMatch = lexicalMatch.responses[2]

(***************************************************************************)
(* The interactive path: useAssistant.sendMessage with useGeminiAI and     *)
(* useConversationContext (src/src/hooks): SpecAssistant.  A call of       *)
(* sendMessage is a record in sending; it advances from one await to the   *)
(* next when the awaited call settles.  The id of a message is the number  *)
(* of the sendMessage call that appended it; a template's response text is *)
(* named by the template's id.                                             *)
(***************************************************************************)

\* sendMessage calls in a run of SpecAssistant
MaxSends == 2

\* sendMessage calls in a run of SpecAnswer
MaxAnswerSends == 1

\* what the user sends: "hola" and " sal"
Contents == { Hola, <<" ", "s", "a", "l">> }

\* ResponseService.responses, the four categories in a row
AssistantCatalog ==
    << Template("greeting_001", <<Hola>>), Template("programming_001", <<Java, Hola>>) >>

\* the defaultResponses of getDefaultResponse
DefaultResponses ==
    { [id |-> "default_001", keywords |-> << >>, response |-> "default_001",
       emotion |-> "thinking"],
      [id |-> "default_002", keywords |-> << >>, response |-> "default_002",
       emotion |-> "neutral"],
      [id |-> "default_003", keywords |-> << >>, response |-> "default_003",
       emotion |-> "thinking"] }

\* getResponse; default is the template Math.random() picks in getDefaultResponse
getResponse(userInput, responses, default) ==
    LET bestMatch == findBestMatch(normalizeText(userInput), responses)
    IN  IF bestMatch # Null THEN bestMatch ELSE default

\* processQuery of the service rejects
Rejected == [rejected |-> TRUE]

\* what serviceRef.current.processQuery settles with
ProcessQueryOutcomes ==
    { Rejected }
    \cup { processQuery(<<"hola">>, defaultProfile,
                        Json([sentiment |-> "positive", confidence |-> 90]), responseReply) :
              responseReply \in { [kind |-> "text", text |-> "respuesta"],
                                  [kind |-> "text", text |-> "  "] } }

\* what analyzeSentimentMessage resolves with: null, or an analysis
SentimentOutcomes ==
    { Null,
      [sentiment |-> [label |-> "negative", confidence |-> 90]],
      [sentiment |-> [label |-> "neutral", confidence |-> 90]] }

\* what the hook's generateResponse resolves with for the empathic prompt
EmpathicOutcomes ==
    { Null, [content |-> "respuesta empatica"], [content |-> ""] }

\* an error message held in a hook's error state
Error(message) == [message |-> message]

\* the content of the message the catch block of sendMessage appends
ErrorReply == "Lo siento, hubo un error al procesar tu mensaje. Podrias intentarlo de nuevo?"

\* !finalResponse || finalResponse.trim().length === 0
isBlank(finalResponse) == Trim(finalResponse) = ""

ChatMessage(type, content, turn) == [type |-> type, content |-> content, id |-> turn]

\* the effect that loads the configuration on mount
LoadConfig(loaded) ==
    /\ assistant.config = "loading"
    /\ assistant' = IF loaded THEN [assistant EXCEPT !.config = "loaded"]
                    ELSE [assistant EXCEPT !.config = "failed",
                                           !.error = Error("Error al cargar la configuracion")]
    /\ UNCHANGED <<serviceVars, sentimentVars, lexicalMatch, sending, gemini, conversation>>

\* useGeminiAI.initialize, run by the autoInitialize effect while the hook is not
\* initialized; it throws when no API key is configured
InitializeGemini(hasApiKey) ==
    /\ ~gemini.isInitialized
    /\ gemini' = IF hasApiKey THEN [gemini EXCEPT !.isInitialized = TRUE, !.error = Null]
                 ELSE [gemini EXCEPT !.error = Error("API Key de Gemini no configurada")]
    /\ UNCHANGED <<serviceVars, sentimentVars, lexicalMatch, assistant, sending, conversation>>

\* useConversationContext.initialize followed by the effect that creates the context
\* of the sessionId option
InitializeConversation ==
    /\ ~conversation.isInitialized
    /\ conversation' = [conversation EXCEPT !.isInitialized = TRUE]
    /\ IF initialSessionId # Null /\ getContext(initialSessionId) = Null
       THEN CreateContext(initialSessionId, NoProfileSeed) /\ UNCHANGED calls
       ELSE UNCHANGED <<serviceVars, sentimentVars>>
    /\ UNCHANGED <<lexicalMatch, assistant, sending, gemini>>

\* sendMessage up to its first await, with processMessage up to its own: blank
\* content or a configuration not yet loaded returns at once
SendMessage(content) ==
    LET turn == Len(sending) + 1
        external == gemini.isInitialized
    IN  /\ trim(content) # << >>
        /\ assistant.config = "loaded"
        /\ assistant' = [assistant EXCEPT
                            !.messages = Append(@, ChatMessage("user", trim(content), turn))]
        /\ gemini' =
              IF ~external THEN [gemini EXCEPT !.error = Error("Servicio no inicializado")]
              ELSE [gemini EXCEPT
                       !.isLoading = TRUE,
                       !.error = Null,
                       !.aborted = IF gemini.abortController # 0
                                   THEN @ \cup {gemini.abortController} ELSE @,
                       !.abortController = turn]
        /\ sending' = Append([t \in DOMAIN sending |->
                                 IF external /\ sending[t].await = "processMessage"
                                 THEN [sending[t] EXCEPT !.superseded = TRUE]
                                 ELSE sending[t]],
                             [content |-> trim(content), await |-> "processMessage",
                              external |-> external, superseded |-> FALSE,
                              aiResult |-> Null, sentimentAnalysis |-> Null,
                              finalResponse |-> "", caught |-> FALSE])
        /\ UNCHANGED <<serviceVars, sentimentVars, lexicalMatch, conversation>>

\* faulty variant: the catch block appends no message
catchReply_sets_error_only(messages, turn) == messages

\* the catch block of sendMessage: the generic error message
catchReply(messages, turn) == Append(messages, ChatMessage("assistant", ErrorReply, turn))

\* the end of sendMessage's try block: the assistant message with finalResponse
Reply(turn, finalResponse) ==
    [assistant EXCEPT !.messages = Append(@, ChatMessage("assistant", finalResponse, turn))]

\* processMessage after its await and sendMessage up to the next one: processQuery
\* has settled (or, for an uninitialized service, processMessage returned null at
\* once)
ProcessMessageSettles(turn, outcome) ==
    LET call == sending[turn]
        aiResult == IF call.external /\ outcome # Rejected THEN outcome ELSE Null
    IN  /\ call.await = "processMessage"
        /\ ~call.external => outcome = Rejected
        /\ gemini' =
              IF ~call.external THEN gemini
              ELSE IF outcome = Rejected
              THEN [gemini EXCEPT !.isLoading = FALSE,
                                  !.error = Error("Failed to process query")]
              ELSE [gemini EXCEPT !.isLoading = FALSE,
                                  !.lastResponse = outcome.response,
                                  !.lastAnalysis = outcome.analysis,
                                  !.applied = @ \cup {turn}]
        /\ IF aiResult = Null
           THEN \* aiResult.analysis throws a TypeError
                /\ assistant' = [assistant EXCEPT
                                    !.error = Error("Error al procesar el mensaje"),
                                    !.messages = catchReply(@, turn),
                                    !.currentEmotion = "neutral"]
                /\ sending' = [sending EXCEPT ![turn].await = "done",
                                              ![turn].caught = TRUE]
           ELSE /\ sending' = [sending EXCEPT ![turn].await = "analyzeSentimentMessage",
                                              ![turn].aiResult = aiResult]
                /\ UNCHANGED assistant
        /\ UNCHANGED <<serviceVars, sentimentVars, lexicalMatch, conversation>>

\* useConversationContext.updateContext
HookUpdateContext(message) ==
    IF ~conversation.isInitialized
    THEN /\ conversation' = [conversation EXCEPT !.error = Error("Servicio no inicializado")]
         /\ UNCHANGED <<serviceVars, sentimentVars>>
    ELSE IF conversation.activeSessionId = Null
    THEN /\ conversation' = [conversation EXCEPT !.error = Error("No hay sesion activa")]
         /\ UNCHANGED <<serviceVars, sentimentVars>>
    ELSE /\ UpdateContext(conversation.activeSessionId, message, NoAnalysis, FALSE)
         /\ conversation' =
               [conversation EXCEPT
                   !.error = IF conversation.activeSessionId \in DOMAIN contexts THEN Null
                             ELSE Error("Context not found for session")]
         /\ UNCHANGED calls

\* the emotion sendMessage shows with a reply that is not blank
emotionMapping(label) ==
    CASE label \in {"positive", "happy"} -> "happy"
      [] label = "excited" -> "excited"
      [] label \in {"confused", "frustrated"} -> "thinking"
      [] OTHER -> "neutral"

\* the end of the try block of sendMessage from the blank test on: a blank
\* finalResponse awaits ResponseService.getResponse, any other is the reply
Respond(turn, finalResponse, sentimentAnalysis) ==
    IF isBlank(finalResponse)
    THEN /\ sending' = [sending EXCEPT ![turn].await = "getResponse",
                                       ![turn].sentimentAnalysis = sentimentAnalysis,
                                       ![turn].finalResponse = finalResponse]
         /\ UNCHANGED assistant
    ELSE /\ sending' = [sending EXCEPT ![turn].await = "done",
                                       ![turn].sentimentAnalysis = sentimentAnalysis,
                                       ![turn].finalResponse = finalResponse]
         /\ assistant' =
               [Reply(turn, finalResponse) EXCEPT
                   !.currentEmotion =
                       emotionMapping(IF sentimentAnalysis # Null
                                      THEN sentimentAnalysis.sentiment.label
                                      ELSE sending[turn].aiResult.analysis.sentiment)]

\* sendMessage from the sentiment analysis to its next await: the context is
\* updated, then a negative sentiment above 0.7 asks for an empathic response.
\* (detectEmotionalShift, awaited first when an earlier analysis exists, returns
\* null on every error and only sets emotionalShift.)
SentimentSettles(turn, sentimentAnalysis) ==
    LET call == sending[turn]
        finalResponse == call.aiResult.response.content
    IN  /\ call.await = "analyzeSentimentMessage"
        /\ HookUpdateContext([id |-> "m1", type |-> "user", content |-> "hola"])
        /\ IF /\ sentimentAnalysis # Null
              /\ sentimentAnalysis.sentiment.label = "negative"
              /\ sentimentAnalysis.sentiment.confidence > 70
           THEN /\ sending' = [sending EXCEPT ![turn].await = "generateResponse",
                                              ![turn].sentimentAnalysis = sentimentAnalysis,
                                              ![turn].finalResponse = finalResponse]
                /\ UNCHANGED assistant
           ELSE Respond(turn, finalResponse, sentimentAnalysis)
        /\ UNCHANGED <<lexicalMatch, gemini>>

\* sendMessage after the empathic response: a response replaces finalResponse
EmpathicSettles(turn, empathicResult) ==
    LET call == sending[turn]
    IN  /\ call.await = "generateResponse"
        /\ gemini' = IF empathicResult # Null
                     THEN [gemini EXCEPT !.lastResponse = empathicResult]
                     ELSE gemini
        /\ Respond(turn,
                   IF empathicResult # Null THEN empathicResult.content
                   ELSE call.finalResponse,
                   call.sentimentAnalysis)
        /\ UNCHANGED <<serviceVars, sentimentVars, lexicalMatch, conversation>>

\* getResponse on the catalog, for every content sent and every pick of a default
fallbackResponses ==
    [content \in { trim(sent) : sent \in Contents }, default \in DefaultResponses |->
        getResponse(content, AssistantCatalog, default)]

\* sendMessage after ResponseService.getResponse: the lexical matcher's reply
FallbackSettles(turn, default) ==
    LET call == sending[turn]
        fallbackResponse == fallbackResponses[call.content, default]
    IN  /\ call.await = "getResponse"
        /\ sending' = [sending EXCEPT ![turn].await = "done",
                                      ![turn].finalResponse = fallbackResponse.response]
        /\ assistant' = [Reply(turn, fallbackResponse.response) EXCEPT
                            !.currentEmotion = fallbackResponse.emotion]
        /\ UNCHANGED <<serviceVars, sentimentVars, lexicalMatch, gemini, conversation>>

\* the call of sendMessage numbered turn goes on after the await it stands at
Continue(turn) ==
    /\ turn \in DOMAIN sending
    /\ UNCHANGED hookVars
    /\ \/ \E outcome \in ProcessQueryOutcomes : ProcessMessageSettles(turn, outcome)
       \/ \E sentimentAnalysis \in SentimentOutcomes :
             SentimentSettles(turn, sentimentAnalysis)
       \/ \E empathicResult \in EmpathicOutcomes : EmpathicSettles(turn, empathicResult)
       \/ \E default \in DefaultResponses : FallbackSettles(turn, default)

NextAssistant ==
    \/ \E loaded \in BOOLEAN : LoadConfig(loaded) /\ UNCHANGED hookVars
    \/ \E hasApiKey \in BOOLEAN : InitializeGemini(hasApiKey) /\ UNCHANGED hookVars
    \/ InitializeConversation /\ UNCHANGED hookVars
    \/ /\ Len(sending) < MaxSends
       /\ \E content \in Contents : SendMessage(content)
       /\ UNCHANGED hookVars
    \/ \E turn \in 1..MaxSends : Continue(turn)

\* every awaited call settles and its continuation runs
SpecAssistant ==
    Init /\ [][NextAssistant]_vars /\ \A turn \in 1..MaxSends : WF_vars(Continue(turn))

\* the same hooks with the sendMessage calls counted by MaxAnswerSends
NextAnswer ==
    \/ \E loaded \in BOOLEAN : LoadConfig(loaded) /\ UNCHANGED hookVars
    \/ \E hasApiKey \in BOOLEAN : InitializeGemini(hasApiKey) /\ UNCHANGED hookVars
    \/ InitializeConversation /\ UNCHANGED hookVars
    \/ /\ Len(sending) < MaxAnswerSends
       /\ \E content \in Contents : SendMessage(content)
       /\ UNCHANGED hookVars
    \/ \E turn \in 1..MaxAnswerSends : Continue(turn)

SpecAnswer ==
    Init /\ [][NextAnswer]_vars /\ \A turn \in 1..MaxAnswerSends : WF_vars(Continue(turn))

\* the positions in messages of the assistant messages sendMessage call turn appended
RepliesOf(turn) ==
    { i \in DOMAIN assistant.messages :
         assistant.messages[i].type = "assistant" /\ assistant.messages[i].id = turn }

\* the position in messages of the user message of sendMessage call turn
UserMessageOf(turn) ==
    CHOOSE i \in DOMAIN assistant.messages :
        assistant.messages[i].type = "user" /\ assistant.messages[i].id = turn

\* C21: a processMessage call that was still awaiting the external model when
\* processMessage was invoked again is superseded: its late result is never applied
\* (lastResponse and lastAnalysis are not set from it, the callbacks are not reached)
\* and sendMessage does not turn it into an assistant reply.
C21_SupersededResultIsNeverApplied ==
    \A turn \in DOMAIN sending :
        sending[turn].superseded
        => /\ turn \notin gemini.applied
           /\ sending[turn].aiResult = Null
           /\ \A i \in RepliesOf(turn) :
                 assistant.messages[i].content \in {ErrorReply, "greeting_001", "default_001",
                                                    "default_002", "default_003"}

\* sendMessage call turn has appended exactly one assistant message, after its user
\* message
RepliedOnce(turn) ==
    /\ turn \in DOMAIN sending
    /\ Cardinality(RepliesOf(turn)) = 1
    /\ \A i \in RepliesOf(turn) : i > UserMessageOf(turn)

\* C22: every sendMessage call with content that is not blank, made once the
\* configuration is loaded, eventually appends exactly one assistant message after
\* its user message, whether the external calls succeed, fail or the AI service is
\* not initialized, provided every awaited call settles: it never appends a second
\* one, and the one is eventually there.
C22_EverySentMessageIsAnsweredOnce ==
    /\ [](\A turn \in DOMAIN sending :
             /\ Cardinality(RepliesOf(turn)) <= 1
             /\ \A i \in RepliesOf(turn) : i > UserMessageOf(turn)
             /\ sending[turn].await = "done" => RepliedOnce(turn))
    /\ \A turn \in 1..MaxAnswerSends : (turn \in DOMAIN sending) ~> RepliedOnce(turn)

\* a message was sent with the AI service initialized, the AI response came back
\* blank, and the call ended with the lexical matcher's reply as its one assistant
\* message
C22_Witness ==
    /\ Len(sending) = 1
    /\ sending[1].await = "done"
    /\ sending[1].external /\ sending[1].aiResult # Null /\ ~sending[1].caught
    /\ RepliedOnce(1)
    /\ assistant.messages =
          << ChatMessage("user", Hola, 1), ChatMessage("assistant", "greeting_001", 1) >>

\* C23: in the interactive path the first utterance creates the Session Context and
\* every turn's user message is appended to it: after n messages have been sent and
\* answered the store holds a context whose message count is at least n.
C23_EveryTurnReachesTheContext ==
    LET answered == { turn \in DOMAIN sending : sending[turn].await = "done" }
    IN  answered # {}
        => \E sessionId \in DOMAIN contexts :
              contexts[sessionId].metadata.messageCount >= Cardinality(answered)

\* what the lexical matcher may reply to the content of sendMessage call turn
LexicalReplies(turn) ==
    { fallbackResponses[sending[turn].content, default].response :
         default \in DefaultResponses }

\* C27: when the AI path yields no usable result for a turn (processMessage returns
\* null, or the AI response text is empty and no empathic response replaces it),
\* sendMessage answers with the reply of ResponseService.getResponse, not with the
\* generic error message, and sets no error state.
C27_NoUsableResultGivesTheLexicalReply ==
    \A turn \in DOMAIN sending :
        LET call == sending[turn]
            empathic == IF call.sentimentAnalysis = Null THEN FALSE
                        ELSE call.sentimentAnalysis.sentiment.label = "negative"
            unusable == IF call.aiResult = Null THEN TRUE
                        ELSE isBlank(call.aiResult.response.content) /\ ~empathic
        IN  (call.await = "done" /\ unusable)
            => /\ ~call.caught
               /\ \A i \in RepliesOf(turn) :
                     assistant.messages[i].content \in LexicalReplies(turn)

(***************************************************************************)
(* useSpeechRecognition (src/src/hooks/useSpeechRecognition.ts) and the    *)
(* transcript effect of useAssistant: SpecSpeech.  The browser supports    *)
(* speech recognition; its recognition object is idle, starting (start()   *)
(* was called), listening (onstart was delivered) or ending (onend is      *)
(* still to come).  speech.effect holds the retryCount and isListening of  *)
(* the render whose effect created the handlers now installed.             *)
(***************************************************************************)

\* onresult events in a run of SpecSpeech
MaxResults == 2

\* the error types recognition.onerror is delivered
ErrorTypes == {"network", "no-speech"}

\* Math.pow(2, retryCount)
RECURSIVE pow2(_)
pow2(exponent) == IF exponent = 0 THEN 1 ELSE 2 * pow2(exponent - 1)

\* if (retryTimeoutRef.current) clearTimeout(retryTimeoutRef.current), called by
\* caller; retryTimeout is 0 when no timer is pending (clearing one that went off
\* does nothing)
clearRetryTimeout(hook, caller) ==
    IF hook.retryTimeout = 0 THEN hook
    ELSE [hook EXCEPT !.retryTimeout = 0,
                      !.retry = [@ EXCEPT !.fate = "cancelled", !.by = caller]]

\* recognitionRef.current.start() inside a try: starting a recognition that is not
\* idle throws InvalidStateError
start(hook) ==
    IF hook.recognition = "idle" THEN [hook EXCEPT !.recognition = "starting"]
    ELSE hook

\* the render after retryCount changed has been committed and its effect has not run
\* yet; React runs it before it renders the state updates of any later handler, so
\* only the retry timer, which sets no state, can come before it
effectPending == speech.effect.retryCount # speech.retryCount

\* useSpeechRecognition.startListening followed by setError(null) of
\* useAssistant.startListening
StartListening ==
    /\ ~effectPending
    /\ speech' =
          IF speech.isListening THEN speech
          ELSE LET cleared == clearRetryTimeout(
                                  [speech EXCEPT !.transcript = << >>, !.committed = FALSE,
                                                 !.error = Null, !.retryCount = 0],
                                  "startListening")
               IN  IF cleared.recognition = "idle" THEN start(cleared)
                   ELSE [cleared EXCEPT !.error = Error("start-error")]
    /\ assistant' = [assistant EXCEPT !.error = Null]
    /\ UNCHANGED <<serviceVars, sentimentVars, lexicalMatch, sending, gemini, conversation, queue>>

\* recognition.onstart
OnStart ==
    /\ ~effectPending
    /\ speech.recognition = "starting"
    /\ speech' = [speech EXCEPT !.recognition = "listening", !.isListening = TRUE,
                                !.error = Null, !.retryCount = 0]
    /\ UNCHANGED <<serviceVars, sentimentVars, lexicalMatch, assistant, sending, gemini,
                   conversation, queue>>

\* recognition.onresult with one result: a final result ends a recognition that is not
\* continuous; setTranscript(finalTranscript || interimTranscript)
OnResult(resultTranscript, isFinal) ==
    /\ ~effectPending
    /\ speech.recognition = "listening"
    /\ speech.results < MaxResults
    /\ speech' = [speech EXCEPT !.transcript = resultTranscript,
                                !.committed = isFinal,
                                !.results = @ + 1,
                                !.recognition = IF isFinal THEN "ending" ELSE @]
    /\ UNCHANGED <<serviceVars, sentimentVars, lexicalMatch, assistant, sending, gemini,
                   conversation, queue>>

\* recognition.onend
OnEnd ==
    /\ ~effectPending
    /\ speech.recognition \in {"listening", "ending"}
    /\ speech' = [speech EXCEPT !.recognition = "idle", !.isListening = FALSE]
    /\ UNCHANGED <<serviceVars, sentimentVars, lexicalMatch, assistant, sending, gemini,
                   conversation, queue>>

\* recognition.onerror: a network error with the handler's retryCount below 3 counts
\* a retry and schedules it; error holds the type the message is generated from
OnError(errorType) ==
    /\ ~effectPending
    /\ speech.recognition \in {"starting", "listening"}
    /\ LET failed == [speech EXCEPT !.recognition = "ending", !.isListening = FALSE,
                                    !.error = Error(errorType)]
           delay == pow2(speech.effect.retryCount) * 1000
       IN  speech' =
              IF errorType = "network" /\ speech.effect.retryCount < 3
              THEN [failed EXCEPT !.retryCount = @ + 1,
                                  !.retryTimeout = delay,
                                  !.retry = [delay |-> delay, fate |-> "scheduled",
                                             by |-> "none"]]
              ELSE failed
    /\ UNCHANGED <<serviceVars, sentimentVars, lexicalMatch, assistant, sending, gemini,
                   conversation, queue>>

\* the render after retryCount changed: the effect's cleanup aborts the recognition
\* and clears the retry timer, then the effect installs a new recognition object
\* whose handlers close over the render's values
RunEffect ==
    /\ effectPending
    /\ speech' = [clearRetryTimeout(speech, "effect") EXCEPT
                     !.aborted = speech.aborted \/ speech.recognition # "idle",
                     !.recognition = "idle",
                     !.effect = [retryCount |-> speech.retryCount,
                                 isListening |-> speech.isListening]]
    /\ UNCHANGED <<serviceVars, sentimentVars, lexicalMatch, assistant, sending, gemini,
                   conversation, queue>>

\* the events of an aborted recognition object: onend, after onerror('aborted') in
\* the browsers that deliver it
OnAborted(withError) ==
    /\ ~effectPending
    /\ speech.aborted
    /\ speech' = [speech EXCEPT !.aborted = FALSE, !.isListening = FALSE,
                                !.error = IF withError THEN Error("aborted") ELSE @]
    /\ UNCHANGED <<serviceVars, sentimentVars, lexicalMatch, assistant, sending, gemini,
                   conversation, queue>>

\* the retry timer goes off: recognition is started unless the handler's isListening
\* was true
RetryFires ==
    /\ speech.retryTimeout # 0
    /\ LET fired == [speech EXCEPT !.retryTimeout = 0,
                                   !.retry = [@ EXCEPT !.fate = "fired"]]
       IN  speech' = IF speech.effect.isListening THEN fired ELSE start(fired)
    /\ UNCHANGED <<serviceVars, sentimentVars, lexicalMatch, assistant, sending, gemini,
                   conversation, queue>>

\* useSpeechRecognition.stopListening
StopListening ==
    /\ ~effectPending
    /\ speech' = clearRetryTimeout(
                     IF speech.isListening /\ speech.recognition \in {"starting", "listening"}
                     THEN [speech EXCEPT !.recognition = "ending"]
                     ELSE speech,
                     "stopListening")
    /\ UNCHANGED <<serviceVars, sentimentVars, lexicalMatch, assistant, sending, gemini,
                   conversation, queue>>

\* useSpeechRecognition.resetTranscript
resetTranscript(hook) ==
    clearRetryTimeout([hook EXCEPT !.transcript = << >>, !.committed = FALSE,
                                   !.error = Null, !.retryCount = 0],
                      "resetTranscript")

\* the transcript effect of useAssistant: a transcript that is not empty is sent when
\* listening has ended, and reset
TranscriptEffect ==
    /\ ~effectPending
    /\ speech.transcript # << >>
    /\ ~speech.isListening
    /\ IF trim(speech.transcript) # << >> /\ assistant.config = "loaded"
       THEN SendMessage(speech.transcript)
       ELSE UNCHANGED <<serviceVars, sentimentVars, lexicalMatch, assistant, sending, gemini,
                        conversation>>
    /\ speech' = [resetTranscript(speech) EXCEPT
                     !.sent = [content |-> speech.transcript,
                               committed |-> speech.committed]]
    /\ UNCHANGED queue

NextSpeech ==
    \/ \E loaded \in BOOLEAN : LoadConfig(loaded) /\ UNCHANGED hookVars
    \/ StartListening
    \/ OnStart
    \/ \E resultTranscript \in Contents, isFinal \in BOOLEAN :
          OnResult(resultTranscript, isFinal)
    \/ OnEnd
    \/ \E errorType \in ErrorTypes : OnError(errorType)
    \/ RunEffect
    \/ \E withError \in BOOLEAN : OnAborted(withError)
    \/ RetryFires
    \/ StopListening
    \/ TranscriptEffect

SpecSpeech == Init /\ [][NextSpeech]_vars

\* C24: only committed (final) transcripts are sent as user messages: the transcript
\* the transcript effect passes to sendMessage is the text of a final result, never
\* the text of an interim result of a recognition that ended without a final one.
C24_OnlyFinalTranscriptsAreSent ==
    speech.sent # Null => speech.sent.committed

\* C29: the retry scheduled after a network error is cancelled only by the user
\* starting, stopping or resetting listening, never by the hook's own re-render, so
\* that it goes off after its delay.
C29_RetryIsCancelledOnlyByTheUser ==
    speech.retry.fate = "cancelled"
    => speech.retry.by \in {"startListening", "stopListening", "resetTranscript"}

(***************************************************************************)
(* The request queue of useGeminiAI (processQueue, queueRequest):          *)
(* SpecQueue.  A request is numbered in the order of the queueRequest      *)
(* calls.  Calling it returns a promise that settles or one that never     *)
(* does, or throws at once; queue.await is where processQueue stands:      *)
(* at await request(), at the 100 ms pause, or nowhere.                    *)
(***************************************************************************)

\* queueRequest calls in a run of SpecQueue
MaxRequests == 3

\* what calling a request does
RequestKinds == {"settles", "hangs", "throws"}

\* the requests the loop of processQueue has called
Started == { queue.started[i] : i \in DOMAIN queue.started }

\* the while loop of processQueue from its test to the next await, or to the end of
\* processQueue
RECURSIVE drain(_)
drain(q) ==
    IF q.requestQueue = << >>
    THEN [q EXCEPT !.isProcessing = FALSE, !.await = "none", !.request = Null]
    ELSE LET request == Head(q.requestQueue)
             shifted == [q EXCEPT !.requestQueue = Tail(@),
                                  !.started = Append(@, request.id)]
         IN  IF request.kind = "throws"
             THEN drain([shifted EXCEPT !.settled = @ \cup {request.id},
                                        !.failed = @ \cup {request.id}])
             ELSE [shifted EXCEPT !.await = "request", !.request = request]

\* processQueue up to its first await
processQueue(q) ==
    IF q.isProcessing \/ q.requestQueue = << >> THEN q
    ELSE drain([q EXCEPT !.isProcessing = TRUE])

\* faulty variant: the catch block leaves the loop and processQueue
afterCatch_leaves_the_loop(q) ==
    [q EXCEPT !.isProcessing = FALSE, !.await = "none", !.request = Null]

\* the catch block of the loop: a warning, then the loop goes on
afterCatch(q) == drain(q)

\* queueRequest
QueueRequest(kind) ==
    /\ queue.queued < MaxRequests
    /\ LET id == queue.queued + 1
       IN  queue' = processQueue(
                       [queue EXCEPT
                           !.requestQueue = Append(@, [id |-> id, kind |-> kind]),
                           !.queued = id,
                           !.duringDrain = IF queue.isProcessing THEN @ \cup {id} ELSE @])
    /\ UNCHANGED <<serviceVars, sentimentVars, lexicalMatch, assistant, sending, gemini,
                   conversation, speech>>

\* the promise of the request processQueue awaits settles: resolved, the pause
\* follows; rejected, the catch block
RequestSettles(rejected) ==
    /\ queue.await = "request"
    /\ queue.request.kind = "settles"
    /\ LET settled == [queue EXCEPT !.settled = @ \cup {queue.request.id}]
       IN  queue' =
              IF rejected
              THEN afterCatch([settled EXCEPT !.failed = @ \cup {queue.request.id}])
              ELSE [settled EXCEPT !.await = "pause", !.request = Null]
    /\ UNCHANGED <<serviceVars, sentimentVars, lexicalMatch, assistant, sending, gemini,
                   conversation, speech>>

\* the 100 ms pause after a request is over
PauseElapses ==
    /\ queue.await = "pause"
    /\ queue' = drain(queue)
    /\ UNCHANGED <<serviceVars, sentimentVars, lexicalMatch, assistant, sending, gemini,
                   conversation, speech>>

NextQueue ==
    \/ \E kind \in RequestKinds : QueueRequest(kind)
    \/ \E rejected \in BOOLEAN : RequestSettles(rejected)
    \/ PauseElapses

\* a promise that settles does so, and the timer of the pause goes off
SpecQueue ==
    /\ Init /\ [][NextQueue]_vars
    /\ WF_vars(\E rejected \in BOOLEAN : RequestSettles(rejected))
    /\ WF_vars(PauseElapses)

\* the requests run one at a time, in the order they were queued: the started
\* requests are 1, 2, ... and all but the last started have settled
OneAtATimeInOrder ==
    /\ \A i \in DOMAIN queue.started : queue.started[i] = i
    /\ \A i \in DOMAIN queue.started : i < Len(queue.started) => i \in queue.settled
    /\ queue.settled \subseteq Started

\* processQueue awaits a request whose promise never settles
AwaitsForever == queue.await = "request" /\ queue.request.kind = "hangs"

=============================================================================
